---- MODULE Spec2Model ----
(***************************************************************************)
(* Model of @synpatico/genome: deterministic structure identifiers for     *)
(* JavaScript values (generateStructureId and the state around it).        *)
(*                                                                         *)
(* JavaScript strings are sequences of one-character strings, so that      *)
(* template literals, split("-"), join("-"), BigInt(...) and toString()    *)
(* are computed, not assumed.                                              *)
(***************************************************************************)
EXTENDS Integers, Sequences, FiniteSets, TLC

(***************************************************************************)
(* Bounds of the model.                                                    *)
(***************************************************************************)
\* width, in bits, of the modelled 32-bit hash primitive
HashBits == 16
\* deepest call stack the host allows processStructure before it throws
MaxStack == 6
\* largest collision count the registration operations are given
MaxCount == 2
\* number of calls of public operations in one run of Spec
MaxCalls == 3

HashMod == 2 ^ HashBits

(***************************************************************************)
(* Strings.                                                                *)
(***************************************************************************)
DigitChars == <<"0", "1", "2", "3", "4", "5", "6", "7", "8", "9">>
HexChars == DigitChars \o <<"a", "b", "c", "d", "e", "f">>
LowerChars ==
    <<"a", "b", "c", "d", "e", "f", "g", "h", "i", "j", "k", "l", "m",
      "n", "o", "p", "q", "r", "s", "t", "u", "v", "w", "x", "y", "z">>

\* UTF-16 code unit of a character (the characters the model's strings use)
CharCode ==
    [c \in {DigitChars[i] : i \in 1..10} |->
        47 + (CHOOSE i \in 1..10 : DigitChars[i] = c)]
    @@ [c \in {LowerChars[i] : i \in 1..26} |->
        96 + (CHOOSE i \in 1..26 : LowerChars[i] = c)]
    @@ ("L" :> 76) @@ (":" :> 58) @@ ("-" :> 45) @@ ("," :> 44) @@ ("." :> 46)
    @@ ("[" :> 91) @@ ("]" :> 93) @@ ("{" :> 123) @@ ("}" :> 125)

\* String(n) of a non-negative integer, as `${n}` and BigInt.toString() give it
RECURSIVE Dec(_)
Dec(n) ==
    IF n < 0 THEN <<"-">> \o Dec(0 - n)
    ELSE IF n < 10 THEN <<DigitChars[n + 1]>>
    ELSE Dec(n \div 10) \o <<DigitChars[(n % 10) + 1]>>

\* Number.prototype.toString(16) of a non-negative integer
RECURSIVE Hex(_)
Hex(n) ==
    IF n < 16 THEN <<HexChars[n + 1]>>
    ELSE Hex(n \div 16) \o <<HexChars[(n % 16) + 1]>>

HexDigit(c) == (CHOOSE i \in 1..16 : HexChars[i] = c) - 1

\* BigInt("0x" + s) of a string of hexadecimal digits
RECURSIVE ParseHex(_)
ParseHex(s) ==
    IF s = <<>> THEN 0
    ELSE ParseHex(SubSeq(s, 1, Len(s) - 1)) * 16 + HexDigit(s[Len(s)])

\* Array.prototype.join(sep) of a sequence of strings
RECURSIVE Join(_, _)
Join(parts, sep) ==
    IF parts = <<>> THEN <<>>
    ELSE IF Len(parts) = 1 THEN parts[1]
    ELSE parts[1] \o sep \o Join(Tail(parts), sep)

\* String.prototype.split(sep) for a one-character separator: always at
\* least one part, "" splits into [""]
RECURSIVE SplitFrom(_, _, _, _)
SplitFrom(s, sep, i, cur) ==
    IF i > Len(s) THEN <<cur>>
    ELSE IF s[i] = sep THEN <<cur>> \o SplitFrom(s, sep, i + 1, <<>>)
    ELSE SplitFrom(s, sep, i + 1, Append(cur, s[i]))

Split(s, sep) == SplitFrom(s, sep, 1, <<>>)

\* Array.prototype.slice(1)
Slice1(parts) == IF parts = <<>> THEN <<>> ELSE Tail(parts)

(***************************************************************************)
(* The 32-bit hash primitive (./hash, xxHash32): a pure function of the    *)
(* string's characters whose result is a lowercase hexadecimal string.     *)
(* The model keeps HashBits bits of it.                                    *)
(***************************************************************************)
\* xxHash32("") is "2cc5d05"
EmptyHash == 46947589

\* one round of mixing: an affine step, then a product of the two halves
Mix(h, code) ==
    LET t == ((h + code) * 9301 + 49297) % HashMod
    IN (t + (t \div 256) * (t % 256) * 7 + (t \div 256)) % HashMod

RECURSIVE HashMix(_, _)
HashMix(s, h) ==
    IF s = <<>> THEN h ELSE HashMix(Tail(s), Mix(h, CharCode[Head(s)]))

xxHash32(input) == Hex(HashMix(input, EmptyHash % HashMod))

(***************************************************************************)
(* Values.  A scalar is [t |-> <category>, v |-> <datum>]; a reference to  *)
(* a heap object is [t |-> "ref", r |-> <identity>].  A heap object is     *)
(* [kind, keys, vals]: kind "object" with its own enumerable keys in       *)
(* insertion order and their values, or kind "array" with its elements in  *)
(* vals (keys empty).                                                      *)
(***************************************************************************)
Ref(r) == [t |-> "ref", r |-> r]
IsRef(value) == value.t = "ref"

\* the names typeof and getType produce, as strings of the program
TypeStr ==
    [number |-> <<"n", "u", "m", "b", "e", "r">>,
     string |-> <<"s", "t", "r", "i", "n", "g">>,
     boolean |-> <<"b", "o", "o", "l", "e", "a", "n">>,
     bigint |-> <<"b", "i", "g", "i", "n", "t">>,
     null |-> <<"n", "u", "l", "l">>,
     undefined |-> <<"u", "n", "d", "e", "f", "i", "n", "e", "d">>,
     symbol |-> <<"s", "y", "m", "b", "o", "l">>,
     function |-> <<"f", "u", "n", "c", "t", "i", "o", "n">>,
     object |-> <<"o", "b", "j", "e", "c", "t">>,
     array |-> <<"a", "r", "r", "a", "y">>]

TYPE_BITS ==
    [root |-> 0, number |-> 1, string |-> 2, boolean |-> 4, bigint |-> 8,
     null |-> 16, undefined |-> 32, symbol |-> 64, object |-> 128,
     array |-> 256]

\* TYPE_BITS[type] || BigInt(0)
TypeBit(type) == IF type \in DOMAIN TYPE_BITS THEN TYPE_BITS[type] ELSE 0

\* the typeof operator
TypeOf(value) ==
    IF IsRef(value) \/ value.t = "null" THEN "object" ELSE value.t

IsArrayIn(h, value) == IsRef(value) /\ h[value.r].kind = "array"

\* typeof x === "object" && x !== null && !Array.isArray(x)
IsObjectIn(h, value) == IsRef(value) /\ h[value.r].kind = "object"

\* an emptiness test that never succeeds
IsEmptyInNever(h, value) == FALSE

\* Object.keys(x).length === 0, or x.length === 0 for an array
IsEmptyIn(h, value) == IsRef(value) /\ h[value.r].vals = <<>>

\* getType with a falsiness test in place of the comparison with null
GetTypeFalsy(h, value) ==
    IF ~IsRef(value) /\ value.v = 0 THEN "null"
    ELSE IF value.t = "undefined" THEN "undefined"
    ELSE IF IsArrayIn(h, value) THEN "array"
    ELSE TypeOf(value)

GetType(h, value) ==
    IF value.t = "null" THEN "null"
    ELSE IF value.t = "undefined" THEN "undefined"
    ELSE IF IsArrayIn(h, value) THEN "array"
    ELSE TypeOf(value)

(***************************************************************************)
(* Array.prototype.sort() with the default comparison: by UTF-16 code      *)
(* units.                                                                  *)
(***************************************************************************)
RECURSIVE StrLess(_, _)
StrLess(a, b) ==
    IF b = <<>> THEN FALSE
    ELSE IF a = <<>> THEN TRUE
    ELSE IF CharCode[Head(a)] # CharCode[Head(b)]
         THEN CharCode[Head(a)] < CharCode[Head(b)]
    ELSE StrLess(Tail(a), Tail(b))

RECURSIVE InsertSorted(_, _)
InsertSorted(k, sorted) ==
    IF sorted = <<>> THEN <<k>>
    ELSE IF StrLess(k, Head(sorted)) THEN <<k>> \o sorted
    ELSE <<Head(sorted)>> \o InsertSorted(k, Tail(sorted))

\* the keys as Object.keys gives them, left in insertion order
SortKeysNone(keys) == keys

RECURSIVE SortKeys(_)
SortKeys(keys) ==
    IF keys = <<>> THEN <<>>
    ELSE InsertSorted(Head(keys), SortKeys(Tail(keys)))

\* objValue[key]
PropOf(obj, key) == obj.vals[CHOOSE i \in 1..Len(obj.keys) : obj.keys[i] = key]

(***************************************************************************)
(* getBit: the key's entry of GLOBAL_KEY_MAP, set from the hash on a miss. *)
(* Returns the bit and the map after the call.                             *)
(***************************************************************************)
MapSet(map, key, value) == (key :> value) @@ map

\* return GLOBAL_KEY_MAP.get(key), the map holding `bit` for the key
WithBit(km, key, bit) == [bit |-> bit, km |-> MapSet(km, key, bit)]

\* getBit handing out the next free number instead of the key's hash
GetBitSequential(km, key) ==
    WithBit(km, key, IF key \in DOMAIN km THEN km[key]
                     ELSE Cardinality(DOMAIN km) + 1)

GetBit(km, key) ==
    WithBit(km, key, IF key \in DOMAIN km THEN km[key]
                     ELSE ParseHex(xxHash32(key)))

(***************************************************************************)
(* generateStructureId's traversal.  The traversal state st holds          *)
(*   lh     levelHashes, a function from the levels seen to accumulators   *)
(*   om     objectMap, from the objects seen to their signatures           *)
(*   km     GLOBAL_KEY_MAP                                                 *)
(*   calls  the number of processStructure calls made                      *)
(*   desc   the objects whose children were iterated, in order             *)
(*   err    TRUE once the call stack limit was exceeded (a RangeError      *)
(*          that ends generateStructureId)                                 *)
(***************************************************************************)
KeysOf(obj) == obj.keys

\* getObjectSignature
GetObjectSignature(obj, path) ==
    IF obj.kind = "object"
    THEN Join(path, <<".">>) \o <<".", "{">>
         \o Join(SortKeys(KeysOf(obj)), <<",">>) \o <<"}">>
    ELSE Join(path, <<".">>) \o <<".", "[">> \o Dec(Len(obj.vals)) \o <<"]">>

\* levelHashes[level] += getBit(key) * multiplier
AddBitOf(st, level, g, multiplier) ==
    [st EXCEPT !.km = g.km, !.lh[level] = @ + g.bit * multiplier]

AddBit(st, level, key, multiplier) ==
    AddBitOf(st, level, GetBit(st.km, key), multiplier)

\* levelHashes[level] += (TYPE_BITS[type] || BigInt(0)) * multiplier
AddType(st, level, type, multiplier) ==
    [st EXCEPT !.lh[level] = @ + TypeBit(type) * multiplier]

\* every level seeded with 1
SeedLevelOne(st, level) ==
    IF level \in DOMAIN st.lh /\ st.lh[level] # 0 THEN st
    ELSE [st EXCEPT !.lh = MapSet(@, level, 1)]

\* if (!levelHashes[level]) levelHashes[level] = BigInt(1) << BigInt(level)
SeedLevel(st, level) ==
    IF level \in DOMAIN st.lh /\ st.lh[level] # 0 THEN st
    ELSE [st EXCEPT !.lh = MapSet(@, level, 2 ^ level)]

IndexLabel(i) == <<"[">> \o Dec(i) \o <<"]">>
LengthLabel(n) == <<"l", "e", "n", "g", "t", "h", ":">> \o Dec(n)
TypeLabel(type) == <<"t", "y", "p", "e", ":">> \o TypeStr[type]
CircularLabel(sig) == <<"c", "i", "r", "c", "u", "l", "a", "r", ":">> \o sig

RECURSIVE ProcessStructure(_, _, _, _, _)
RECURSIVE ObjectLoop(_, _, _, _, _, _, _)
RECURSIVE ArrayLoop(_, _, _, _, _, _)

\* for (const key of keys), from the m-th sorted key on; multiplier is m
ObjectLoop(h, obj, keys, m, level, path, st) ==
    IF m > Len(keys) \/ st.err THEN st
    ELSE LET key == keys[m]
             child == PropOf(obj, key)
             s1 == AddBit(st, level, key, m)
             s2 == AddType(s1, level, GetType(h, child), m)
             s3 == ProcessStructure(h, child, level + 1, Append(path, key), s2)
         IN ObjectLoop(h, obj, keys, m + 1, level, path, s3)

\* for (let i = 0; i < arrayValue.length; i++), from index m - 1 on
ArrayLoop(h, obj, m, level, path, st) ==
    IF m > Len(obj.vals) \/ st.err THEN st
    ELSE LET child == obj.vals[m]
             s1 == AddBit(st, level, IndexLabel(m - 1), m)
             s2 == AddType(s1, level, GetType(h, child), m)
             s3 == ProcessStructure(h, child, level + 1,
                                    Append(path, IndexLabel(m - 1)), s2)
         IN ArrayLoop(h, obj, m + 1, level, path, s3)

\* the children of a container seen for the first time
Descend(h, value, type, level, path, st) ==
    LET obj == h[value.r]
        s1 == [st EXCEPT !.desc = Append(@, value.r)]
    IN IF type = "object"
       THEN ObjectLoop(h, obj, SortKeys(KeysOf(obj)), 1, level, path, s1)
       ELSE ArrayLoop(h, obj, 1, level, path,
                      AddBit(s1, level, LengthLabel(Len(obj.vals)), 1))

\* an objectMap lookup that never finds the object
VisitedNever(st, r) == FALSE

\* objectMap.has(objValue)
Visited(st, r) == r \in DOMAIN st.om

\* if (!isRootLevel || !isEmpty) { ... }
EnterContainer(h, value, type, level, path, st) ==
    IF level # 0 \/ ~IsEmptyIn(h, value)
    THEN Descend(h, value, type, level, path, st)
    ELSE st

\* a record or sequence met at `level`
ProcessContainer(h, value, type, level, path, st) ==
    IF Visited(st, value.r)
    THEN AddBit(st, level, CircularLabel(st.om[value.r]), 1)
    ELSE EnterContainer(
             h, value, type, level, path,
             AddBit([st EXCEPT !.om = MapSet(@, value.r,
                                             GetObjectSignature(h[value.r], path))],
                    level, TypeLabel(type), 1))

\* if (type !== "object" && type !== "array") return
ProcessTyped(h, value, type, level, path, st) ==
    IF type # "object" /\ type # "array" THEN st
    ELSE ProcessContainer(h, value, type, level, path, st)

\* one more processStructure call
CountCall(st) == [st EXCEPT !.calls = @ + 1]

ProcessStructure(h, value, level, path, st) ==
    IF st.err THEN st
    ELSE IF level >= MaxStack THEN [st EXCEPT !.err = TRUE]
    ELSE ProcessTyped(h, value, GetType(h, value), level, path,
                      CountCall(AddType(SeedLevel(st, level), level,
                                        GetType(h, value), 1)))

(***************************************************************************)
(* generateStructureId.  The process-wide state is passed as a record w:   *)
(*   km    GLOBAL_KEY_MAP            ctr   STRUCTURE_HASH_COUNTER          *)
(*   idc   OBJECT_ID_CACHE           sigc  OBJECT_SIGNATURE_CACHE          *)
(*   infoc STRUCTURE_INFO_CACHE                                            *)
(* A StructureIdConfig is "on" ({newIdOnCollision: true}), "off"           *)
(* ({newIdOnCollision: false}) or "unset" ({}); NoConfig is an absent      *)
(* config argument.  The result is [ret, thrown, w, st].                   *)
(***************************************************************************)
NoConfig == "none"
Configs == {"on", "off", "unset"}

\* config || globalConfig
EffectiveConfig(config, gcfg) == IF config = NoConfig THEN gcfg ELSE config

\* effectiveConfig?.newIdOnCollision, as a condition
NewIdOnCollision(eff) == eff = "on"

EmptySt(km) ==
    [lh |-> <<>>, om |-> <<>>, km |-> km, calls |-> 0, desc |-> <<>>,
     err |-> FALSE]

Returned(ret, w, st) == [ret |-> ret, thrown |-> FALSE, w |-> w, st |-> st]
Thrown(w, st) == [ret |-> <<>>, thrown |-> TRUE, w |-> w, st |-> st]

MaxLevel(lh) == CHOOSE l \in DOMAIN lh : \A k \in DOMAIN lh : k <= l

\* `L${level}:${hash}`
LevelPart(level, hash) == <<"L">> \o Dec(level) \o <<":">> \o Dec(hash)

\* Object.entries(levelHashes), in ascending level order, from level lo on,
\* each mapped to its part
RECURSIVE LevelParts(_, _)
LevelParts(lh, lo) ==
    IF DOMAIN lh = {} \/ lo > MaxLevel(lh) THEN <<>>
    ELSE IF lo \in DOMAIN lh
         THEN <<LevelPart(lo, lh[lo])>> \o LevelParts(lh, lo + 1)
    ELSE LevelParts(lh, lo + 1)

\* a delete that leaves the entry in place
MapDeleteNone(map, key) == map

MapDelete(map, key) == [k \in DOMAIN map \ {key} |-> map[k]]

(***************************************************************************)
(* A JavaScript number held as a count: whole, or whole + 1/2 when half.   *)
(* The collision counters are typed `number`, so a count need not be an    *)
(* integer.                                                                *)
(***************************************************************************)
Num(whole, half) == [whole |-> whole, half |-> half]
Whole(n) == Num(n, FALSE)

\* whether BigInt(n) returns (it throws a RangeError for a non-integer)
IsInteger(n) == ~n.half

\* whether n is truthy (n || 0 is n)
Truthy(n) == n.whole # 0 \/ n.half

\* a counter lookup that ignores the stored count
CountOfZero(ctr, sig) == Whole(0)

\* STRUCTURE_HASH_COUNTER.get(structureSignature) ?? 0
CountOf(ctr, sig) == IF sig \in DOMAIN ctr THEN ctr[sig] ELSE Whole(0)

\* the identifier cache written in either mode
CacheIdAlways(idc, r, on, finalId) == MapSet(idc, r, finalId)

\* if (!newIdOnCollision && obj is an object) OBJECT_ID_CACHE.set(obj, finalId)
CacheId(idc, r, on, finalId) == IF on THEN idc ELSE MapSet(idc, r, finalId)

\* a counter update made in either mode
CountUpAlways(ctr, on, structureSignature, currentCount) ==
    MapSet(ctr, structureSignature, Whole(currentCount.whole + 1))

\* if (newIdOnCollision)
\*     STRUCTURE_HASH_COUNTER.set(structureSignature, currentCount + 1)
CountUp(ctr, on, structureSignature, currentCount) ==
    IF on THEN MapSet(ctr, structureSignature, Whole(currentCount.whole + 1))
    ELSE ctr

\* the writes to the counters and the caches, and the return of finalId
Store(w, r, on, st, structureSignature, currentCount, finalId) ==
    Returned(finalId,
             [w EXCEPT
                !.km = st.km,
                !.sigc = MapSet(@, r, structureSignature),
                !.ctr = CountUp(@, on, structureSignature, currentCount),
                !.idc = CacheId(@, r, on, finalId),
                !.infoc = MapDelete(@, r)],
             st)

\* if (newIdOnCollision) levelHashes[0] = BigInt(currentCount); idParts, finalId
FinishCounted(w, r, on, st, structureSignature, currentCount) ==
    IF on /\ ~IsInteger(currentCount)
    THEN Thrown([w EXCEPT !.km = st.km,
                          !.sigc = MapSet(@, r, structureSignature)], st)
    ELSE Store(w, r, on, st, structureSignature, currentCount,
               Join(LevelParts(IF on
                               THEN [st.lh EXCEPT ![0] = currentCount.whole]
                               ELSE st.lh, 0),
                    <<"-">>))

\* currentCount
FinishSigned(w, r, on, st, structureSignature) ==
    FinishCounted(w, r, on, st, structureSignature,
                  CountOf(w.ctr, structureSignature))

\* the part of generateStructureId after processStructure(obj)
Finish(w, r, eff, st) ==
    FinishSigned(w, r, NewIdOnCollision(eff), st,
                 Join(LevelParts(st.lh, 1), <<"-">>))

\* processStructure(obj) returned or threw
AfterTraversal(w, r, eff, st) ==
    IF st.err THEN Thrown([w EXCEPT !.km = st.km], st)
    ELSE Finish(w, r, eff, st)

\* the identifier of a root that is neither a record nor a sequence
ScalarId(obj) ==
    LET b == Dec(TypeBit(TypeOf(obj)))
    IN <<"L", "0", ":">> \o b \o <<"-", "L", "1", ":">> \o b

\* an identifier cache consulted in either mode
IdCacheHitAlways(idc, r, on) == r \in DOMAIN idc

\* if (!effectiveConfig.newIdOnCollision && OBJECT_ID_CACHE.has(obj))
IdCacheHit(idc, r, on) == ~on /\ r \in DOMAIN idc

GenerateStructureId(h, w, gcfg, obj, config) ==
    IF IsObjectIn(h, obj) /\ IsEmptyIn(h, obj)
    THEN Returned(<<"{", "}">>, w, EmptySt(w.km))
    ELSE IF IsArrayIn(h, obj) /\ IsEmptyIn(h, obj)
    THEN Returned(<<"[", "]">>, w, EmptySt(w.km))
    ELSE IF ~IsRef(obj) THEN Returned(ScalarId(obj), w, EmptySt(w.km))
    ELSE IF IdCacheHit(w.idc, obj.r,
                       NewIdOnCollision(EffectiveConfig(config, gcfg)))
    THEN Returned(w.idc[obj.r], w, EmptySt(w.km))
    ELSE AfterTraversal(w, obj.r, EffectiveConfig(config, gcfg),
                        ProcessStructure(h, obj, 0, <<>>, EmptySt(w.km)))

(***************************************************************************)
(* The other public operations, as functions of the process-wide state.    *)
(***************************************************************************)
\* calculateIdLevels
CalculateIdLevels(id) == Len(Split(id, "-"))

\* a strip that keeps the depth-0 segment
StripL0None(id) == id

\* id.split("-").slice(1).join("-")
StripL0(id) == Join(Slice1(Split(id, "-")), <<"-">>)

\* `type:${typeof obj}`
PrimitiveSignature(obj) == <<"t", "y", "p", "e", ":">> \o TypeStr[TypeOf(obj)]

\* OBJECT_SIGNATURE_CACHE.set(obj, signature); return signature
CacheSignature(g, r, signature) ==
    IF g.thrown THEN g
    ELSE Returned(signature, [g.w EXCEPT !.sigc = MapSet(@, r, signature)], g.st)

\* the signature from tempId, the result g of generateStructureId
SignatureOf(g, r) == CacheSignature(g, r, StripL0(g.ret))

GetStructureSignature(h, w, gcfg, obj) ==
    IF ~IsRef(obj) THEN Returned(PrimitiveSignature(obj), w, EmptySt(w.km))
    ELSE IF obj.r \in DOMAIN w.sigc
    THEN Returned(w.sigc[obj.r], w, EmptySt(w.km))
    ELSE SignatureOf(GenerateStructureId(h, w, gcfg, obj, "off"), obj.r)

\* a registration that stores 0 whatever the count given
SetCountZero(g, collisionCount) ==
    IF g.thrown THEN g
    ELSE Returned(<<>>, [g.w EXCEPT !.ctr = MapSet(@, g.ret, Whole(0))], g.st)

\* STRUCTURE_HASH_COUNTER.set(signature, collisionCount), g the result of
\* getStructureSignature
SetCount(g, collisionCount) ==
    IF g.thrown THEN g
    ELSE Returned(<<>>, [g.w EXCEPT !.ctr = MapSet(@, g.ret, collisionCount)],
                  g.st)

RegisterStructure(h, w, gcfg, obj, collisionCount) ==
    SetCount(GetStructureSignature(h, w, gcfg, obj), collisionCount)

RECURSIVE RegisterStructures(_, _, _, _)

\* the registrations after the first, g the result of the first
RegisterRest(h, g, gcfg, rest) ==
    IF g.thrown THEN g ELSE RegisterStructures(h, g.w, gcfg, rest)

\* registerStructures: registerStructure for each registration in turn
RegisterStructures(h, w, gcfg, registrations) ==
    IF registrations = <<>> THEN Returned(<<>>, w, EmptySt(w.km))
    ELSE RegisterRest(h,
                      RegisterStructure(h, w, gcfg,
                                        Head(registrations).structure,
                                        Head(registrations).count),
                      gcfg, Tail(registrations))

\* registerStructureSignatures
RECURSIVE RegisterStructureSignatures(_, _)
RegisterStructureSignatures(ctr, signatures) ==
    IF signatures = <<>> THEN ctr
    ELSE RegisterStructureSignatures(
             MapSet(ctr, Head(signatures).signature, Head(signatures).count),
             Tail(signatures))

\* STRUCTURE_HASH_COUNTER.get(structureSignature) || 0
CountOrZero(ctr, sig) ==
    IF sig \in DOMAIN ctr /\ Truthy(ctr[sig]) THEN ctr[sig] ELSE Whole(0)

Bundle(id, levels, collisionCount) ==
    [id |-> id, levels |-> levels, collisionCount |-> collisionCount]

\* STRUCTURE_INFO_CACHE.set(obj, result); return result
StoreInfo(g, r, result) ==
    IF g.thrown THEN g
    ELSE Returned(result, [g.w EXCEPT !.infoc = MapSet(@, r, result)], g.st)

\* levels and result
InfoResult(g, r, id, collisionCount) ==
    StoreInfo(g, r, Bundle(id, CalculateIdLevels(id), collisionCount))

\* id = generateStructureId(obj, { newIdOnCollision: false }), g its result
InfoFromId(g, r, collisionCount) == InfoResult(g, r, g.ret, collisionCount)

\* let id: the identifier put together from the counter, or the cached or
\* a newly computed stable identifier
InfoId(h, g, gcfg, obj, on, structureSignature, collisionCount) ==
    IF on /\ ~IsInteger(collisionCount) THEN Thrown(g.w, g.st)
    ELSE IF on
    THEN InfoResult(g, obj.r,
                    Join(<<<<"L", "0", ":">> \o Dec(collisionCount.whole),
                           structureSignature>>, <<"-">>),
                    collisionCount)
    ELSE IF obj.r \in DOMAIN g.w.idc
    THEN InfoResult(g, obj.r, g.w.idc[obj.r], collisionCount)
    ELSE InfoFromId(GenerateStructureId(h, g.w, gcfg, obj, "off"), obj.r,
                    collisionCount)

\* collisionCount
InfoSigned(h, g, gcfg, obj, on, structureSignature) ==
    IF g.thrown THEN g
    ELSE InfoId(h, g, gcfg, obj, on, structureSignature,
                CountOrZero(g.w.ctr, structureSignature))

\* the signature taken from a newly computed identifier, g its result
InfoFresh(h, g, gcfg, obj, on) ==
    InfoSigned(h, g, gcfg, obj, on, StripL0(g.ret))

\* the bundle of a root that is not an object, g the result of
\* generateStructureId
ScalarInfo(g) ==
    Returned(Bundle(g.ret, CalculateIdLevels(g.ret), Whole(0)), g.w, g.st)

\* getStructureInfo; the result's ret is the bundle
GetStructureInfo(h, w, gcfg, obj, config) ==
    IF ~IsRef(obj) THEN ScalarInfo(GenerateStructureId(h, w, gcfg, obj, "off"))
    ELSE IF obj.r \in DOMAIN w.infoc
    THEN Returned(w.infoc[obj.r], w, EmptySt(w.km))
    ELSE IF obj.r \in DOMAIN w.sigc
    THEN InfoSigned(h, Returned(<<>>, w, EmptySt(w.km)), gcfg, obj,
                    NewIdOnCollision(EffectiveConfig(config, gcfg)),
                    w.sigc[obj.r])
    ELSE InfoFresh(h, GenerateStructureId(h, w, gcfg, obj, "off"), gcfg, obj,
                   NewIdOnCollision(EffectiveConfig(config, gcfg)))

\* a reset that leaves the identifier cache of the first object in place
ResetWorldKeepingIds ==
    [km |-> <<>>, ctr |-> <<>>, idc |-> (1 :> <<"L", "0", ":", "0">>),
     sigc |-> <<>>, infoc |-> <<>>]

\* the process-wide state resetState leaves
ResetWorld ==
    [km |-> <<>>, ctr |-> <<>>, idc |-> <<>>, sigc |-> <<>>, infoc |-> <<>>]

(***************************************************************************)
(* The digest (./hash, hash): a pure function of the string's characters   *)
(* whose result is a lowercase hexadecimal string.  hash("") is "0".       *)
(***************************************************************************)
hash(input) == Hex(HashMix(input, 0))

\* return hash(fullId), g the result of generateStructureId
CompactOf(g) == IF g.thrown THEN g ELSE Returned(hash(g.ret), g.w, g.st)

\* getCompactId
GetCompactId(h, w, gcfg, obj, config) ==
    CompactOf(GenerateStructureId(h, w, gcfg, obj, config))

\* info.id = hash(info.id); return info, g the result of getStructureInfo.
\* The bundle getStructureInfo returns for an object is the one the info
\* cache holds, so the assignment changes the cached bundle as well.
HashInfo(g, obj, info) ==
    Returned(info,
             IF IsRef(obj) THEN [g.w EXCEPT !.infoc = MapSet(@, obj.r, info)]
             ELSE g.w,
             g.st)

CompactInfoOf(g, obj) ==
    IF g.thrown THEN g ELSE HashInfo(g, obj, [g.ret EXCEPT !.id = hash(@)])

\* getCompactInfo
GetCompactInfo(h, w, gcfg, obj, config) ==
    CompactInfoOf(GetStructureInfo(h, w, gcfg, obj, config), obj)

(***************************************************************************)
(* StructureState: keyMap is the record's entries, [key, value] with value *)
(* a string, in the order Object.entries lists them; collisionCounters     *)
(* maps signatures to numbers.                                             *)
(***************************************************************************)
StructureState(keyMap, collisionCounters) ==
    [keyMap |-> keyMap, collisionCounters |-> collisionCounters]

Entry(key, value) == [key |-> key, value |-> value]

\* the record a sequence of entries stands for (a later entry of a key
\* replaces an earlier one)
RECURSIVE FromEntries(_)
FromEntries(entries) ==
    IF entries = <<>> THEN <<>>
    ELSE MapSet(FromEntries(SubSeq(entries, 1, Len(entries) - 1)),
                entries[Len(entries)].key, entries[Len(entries)].value)

\* the keys of a map, listed in code unit order (the order of insertion,
\* in which the program lists them, is not kept by the model's maps)
RECURSIVE KeyList(_)
KeyList(keys) ==
    IF keys = {} THEN <<>>
    ELSE LET first == CHOOSE k \in keys : \A j \in keys \ {k} : StrLess(k, j)
         IN <<first>> \o KeyList(keys \ {first})

\* an export that leaves the key map out
ExportKeysNone(km, keys) == <<>>

\* keyMap[key] = value.toString() for the listed keys
RECURSIVE ExportKeys(_, _)
ExportKeys(km, keys) ==
    IF keys = <<>> THEN <<>>
    ELSE <<Entry(Head(keys), Dec(km[Head(keys)]))>> \o ExportKeys(km, Tail(keys))

\* exportStructureState
ExportStructureState(w) ==
    StructureState(ExportKeys(w.km, KeyList(DOMAIN w.km)), w.ctr)

\* the value of the digits s in the given base
RECURSIVE ParseDigits(_, _)
ParseDigits(s, base) ==
    IF s = <<>> THEN 0
    ELSE ParseDigits(SubSeq(s, 1, Len(s) - 1), base) * base
         + HexDigit(s[Len(s)])

\* s is one or more digits of the base
IsDigits(s, base) ==
    /\ s # <<>>
    /\ \A i \in 1..Len(s) : \E d \in 1..base : HexChars[d] = s[i]

\* the base a 0x, 0o or 0b prefix announces, 0 if s has none
PrefixBase(s) ==
    IF Len(s) < 2 \/ s[1] # "0" THEN 0
    ELSE IF s[2] = "x" THEN 16
    ELSE IF s[2] = "o" THEN 8
    ELSE IF s[2] = "b" THEN 2
    ELSE 0

\* BigInt(s) of a string: [ok, value]; ok is FALSE when it throws a
\* SyntaxError.  "" is 0n; decimal digits may carry a sign; a prefixed
\* literal may not.
Parsed(value) == [ok |-> TRUE, value |-> value]
NotParsed == [ok |-> FALSE, value |-> 0]

StringToBigInt(s) ==
    IF s = <<>> THEN Parsed(0)
    ELSE IF IsDigits(s, 10) THEN Parsed(ParseDigits(s, 10))
    ELSE IF s[1] = "-" /\ IsDigits(Tail(s), 10)
    THEN Parsed(0 - ParseDigits(Tail(s), 10))
    ELSE IF PrefixBase(s) # 0 /\ IsDigits(SubSeq(s, 3, Len(s)), PrefixBase(s))
    THEN Parsed(ParseDigits(SubSeq(s, 3, Len(s)), PrefixBase(s)))
    ELSE NotParsed

\* what importStructureState leaves: thrown with the error's name, or not
Imported(w) == [thrown |-> FALSE, error |-> "", w |-> w]
ImportThrown(error, w) == [thrown |-> TRUE, error |-> error, w |-> w]

\* an import that leaves the counters out
ImportCountersNone(w, collisionCounters) == Imported(w)

\* STRUCTURE_HASH_COUNTER.set(signature, count) for every counter; the
\* loop over the bits that follows changes nothing
ImportCounters(w, collisionCounters) ==
    Imported([w EXCEPT !.ctr = collisionCounters @@ @])

\* GLOBAL_KEY_MAP.set(key, BigInt(valueStr)) for every entry in turn, then
\* the counters
RECURSIVE ImportKeys(_, _, _)
ImportKeys(w, keyMap, collisionCounters) ==
    IF keyMap = <<>> THEN ImportCounters(w, collisionCounters)
    ELSE IF ~StringToBigInt(Head(keyMap).value).ok
    THEN ImportThrown("SyntaxError", w)
    ELSE ImportKeys([w EXCEPT !.km = MapSet(@, Head(keyMap).key,
                                    StringToBigInt(Head(keyMap).value).value)],
                    Tail(keyMap), collisionCounters)

\* let maxBit = BigInt(0); for (const bitStr of Object.values(state.keyMap))
\* the largest bit of the snapshot; the program computes it and drops it
RECURSIVE MaxBit(_)
MaxBit(keyMap) ==
    IF keyMap = <<>> THEN 0
    ELSE IF StringToBigInt(Head(keyMap).value).value > MaxBit(Tail(keyMap))
    THEN StringToBigInt(Head(keyMap).value).value
    ELSE MaxBit(Tail(keyMap))

\* importStructureState: resetState() and then the entries
ImportStructureState(state) ==
    ImportKeys(ResetWorld, state.keyMap, state.collisionCounters)

(***************************************************************************)
(* State.  heap is the JavaScript heap the callers hold; the next six are  *)
(* the module's process-wide variables; last is the most recent call and   *)
(* what it returned; stable is, for every object, the identifier the most  *)
(* recent stable-mode generateStructureId call on it returned; runs is,    *)
(* for every signature, the identifiers the disambiguating-mode            *)
(* generateStructureId calls on values of that signature have returned     *)
(* since it last had no counter, in call order, as long as nothing else    *)
(* has set its counter;                                                    *)
(* ncalls is the number of calls made so far.                              *)
(***************************************************************************)
VARIABLES heap, GLOBAL_KEY_MAP, STRUCTURE_HASH_COUNTER, OBJECT_ID_CACHE,
          OBJECT_SIGNATURE_CACHE, STRUCTURE_INFO_CACHE, globalConfig, last,
          stable, runs, ncalls

vars ==
    <<heap, GLOBAL_KEY_MAP, STRUCTURE_HASH_COUNTER, OBJECT_ID_CACHE,
      OBJECT_SIGNATURE_CACHE, STRUCTURE_INFO_CACHE, globalConfig, last,
      stable, runs, ncalls>>

World ==
    [km |-> GLOBAL_KEY_MAP, ctr |-> STRUCTURE_HASH_COUNTER,
     idc |-> OBJECT_ID_CACHE, sigc |-> OBJECT_SIGNATURE_CACHE,
     infoc |-> STRUCTURE_INFO_CACHE]

SetWorld(w) ==
    /\ GLOBAL_KEY_MAP' = w.km
    /\ STRUCTURE_HASH_COUNTER' = w.ctr
    /\ OBJECT_ID_CACHE' = w.idc
    /\ OBJECT_SIGNATURE_CACHE' = w.sigc
    /\ STRUCTURE_INFO_CACHE' = w.infoc

\* a call and its outcome: dis says that the call ran in disambiguating
\* mode, nth is the call's index in its signature's run (-1 outside a run),
\* prev is the identifier the previous stable-mode generateStructureId call
\* on the same object returned ("" if there was none), error is the name of
\* the error thrown (BigInt of a non-integer number and a call stack that
\* overflows both throw a RangeError), state is the StructureState given
\* or returned
Call(op, arg, config, g) ==
    [op |-> op, arg |-> arg, config |-> config,
     dis |-> NewIdOnCollision(EffectiveConfig(config, globalConfig)),
     ret |-> g.ret, thrown |-> g.thrown, calls |-> g.st.calls,
     desc |-> g.st.desc, levels |-> 0, collisionCount |-> Whole(0),
     nth |-> -1, prev |-> <<>>, error |-> IF g.thrown THEN "RangeError" ELSE "",
     state |-> StructureState(<<>>, <<>>)]

NoCall ==
    [op |-> "none", arg |-> [t |-> "undefined", v |-> 0], config |-> NoConfig,
     dis |-> FALSE, ret |-> <<>>, thrown |-> FALSE, calls |-> 0, desc |-> <<>>,
     levels |-> 0, collisionCount |-> Whole(0), nth |-> -1, prev |-> <<>>,
     error |-> "", state |-> StructureState(<<>>, <<>>)]

\* scalars: v = 0 is the falsy datum of the category, v = 1 a truthy one
Scalar(t, v) == [t |-> t, v |-> v]
Obj(keys, vals) == [kind |-> "object", keys |-> keys, vals |-> vals]
Arr(vals) == [kind |-> "array", keys |-> <<>>, vals |-> vals]

Refs == DOMAIN heap

InitState ==
    /\ GLOBAL_KEY_MAP = <<>>
    /\ STRUCTURE_HASH_COUNTER = <<>>
    /\ OBJECT_ID_CACHE = <<>>
    /\ OBJECT_SIGNATURE_CACHE = <<>>
    /\ STRUCTURE_INFO_CACHE = <<>>
    /\ globalConfig = "off"
    /\ last = NoCall
    /\ stable = <<>>
    /\ runs = <<>>
    /\ ncalls = 0

\* the identifier and the signature a value gets in stable mode from a
\* freshly reset process
FreshId(h, obj) == GenerateStructureId(h, ResetWorld, "off", obj, "off").ret
FreshSignature(h, obj) == StripL0(FreshId(h, obj))

RunTracked(sig) == sig \in DOMAIN runs \/ sig \notin DOMAIN STRUCTURE_HASH_COUNTER
RunIds(sig) == IF sig \in DOMAIN runs THEN runs[sig] ELSE <<>>
RunLength(sig) == Len(RunIds(sig))

\* generateStructureId(obj, config)
CallGenerateStructureId(obj, config) ==
    \E g \in {GenerateStructureId(heap, World, globalConfig, obj, config)},
       dis \in {NewIdOnCollision(EffectiveConfig(config, globalConfig))} :
    \E sig \in {IF dis /\ IsRef(obj) THEN FreshSignature(heap, obj) ELSE <<>>} :
    LET counted == dis /\ IsRef(obj) /\ ~g.thrown /\ RunTracked(sig)
    IN /\ \A x \in DOMAIN g.w.ctr : g.w.ctr[x].whole <= MaxCount + 1
       /\ SetWorld(g.w)
       /\ last' = [Call("generateStructureId", obj, config, g) EXCEPT
                     !.nth = IF counted THEN RunLength(sig) ELSE -1,
                     !.prev = IF IsRef(obj) /\ obj.r \in DOMAIN stable
                              THEN stable[obj.r] ELSE <<>>]
       /\ stable' = IF ~dis /\ IsRef(obj) /\ ~g.thrown
                    THEN MapSet(stable, obj.r, g.ret) ELSE stable
       /\ runs' = IF counted THEN MapSet(runs, sig, Append(RunIds(sig), g.ret))
                  ELSE runs
       /\ UNCHANGED <<heap, globalConfig>>

\* getStructureSignature(obj)
CallGetStructureSignature(obj) ==
    \E g \in {GetStructureSignature(heap, World, globalConfig, obj)} :
       /\ SetWorld(g.w)
       /\ last' = Call("getStructureSignature", obj, NoConfig, g)
       /\ UNCHANGED <<heap, globalConfig, stable, runs>>

\* getStructureInfo(obj, config)
CallGetStructureInfo(obj, config) ==
    \E g \in {GetStructureInfo(heap, World, globalConfig, obj, config)} :
    LET b == g.ret
    IN /\ SetWorld(g.w)
       /\ last' = IF g.thrown THEN Call("getStructureInfo", obj, config, g)
                  ELSE [Call("getStructureInfo", obj, config, g) EXCEPT
                          !.ret = b.id, !.levels = b.levels,
                          !.collisionCount = b.collisionCount]
       /\ UNCHANGED <<heap, globalConfig, stable, runs>>

\* registerStructure(obj, collisionCount)
CallRegisterStructure(obj, collisionCount) ==
    \E g \in {RegisterStructure(heap, World, globalConfig, obj, collisionCount)} :
       /\ SetWorld(g.w)
       /\ last' = [Call("registerStructure", obj, NoConfig, g) EXCEPT
                     !.collisionCount = collisionCount]
       /\ runs' = IF g.thrown THEN runs
                  ELSE MapDelete(runs, GetStructureSignature(
                                           heap, World, globalConfig, obj).ret)
       /\ UNCHANGED <<heap, globalConfig, stable>>

\* registerStructureSignatures(signatures); last keeps the signature and
\* the count of the last registration of the list
CallRegisterStructureSignatures(signatures) ==
    /\ STRUCTURE_HASH_COUNTER' =
           RegisterStructureSignatures(STRUCTURE_HASH_COUNTER, signatures)
    /\ last' = [NoCall EXCEPT
                  !.op = "registerStructureSignatures",
                  !.ret = IF signatures = <<>> THEN <<>>
                          ELSE signatures[Len(signatures)].signature,
                  !.collisionCount =
                      IF signatures = <<>> THEN Whole(0)
                      ELSE signatures[Len(signatures)].count]
    /\ runs' = [x \in DOMAIN runs
                    \ {signatures[i].signature : i \in 1..Len(signatures)}
                  |-> runs[x]]
    /\ UNCHANGED <<heap, GLOBAL_KEY_MAP, OBJECT_ID_CACHE,
                   OBJECT_SIGNATURE_CACHE, STRUCTURE_INFO_CACHE, globalConfig,
                   stable>>

\* setStructureIdConfig(config)
CallSetStructureIdConfig(config) ==
    /\ globalConfig' = config
    /\ last' = [NoCall EXCEPT !.op = "setStructureIdConfig", !.config = config]
    /\ UNCHANGED <<heap, GLOBAL_KEY_MAP, STRUCTURE_HASH_COUNTER,
                   OBJECT_ID_CACHE, OBJECT_SIGNATURE_CACHE,
                   STRUCTURE_INFO_CACHE, stable, runs>>

\* resetState()
CallResetState ==
    /\ SetWorld(ResetWorld)
    /\ last' = [NoCall EXCEPT !.op = "resetState"]
    /\ runs' = <<>>
    /\ UNCHANGED <<heap, globalConfig, stable>>

\* exportStructureState()
CallExportStructureState ==
    /\ last' = [NoCall EXCEPT !.op = "exportStructureState",
                              !.state = ExportStructureState(World)]
    /\ UNCHANGED <<heap, GLOBAL_KEY_MAP, STRUCTURE_HASH_COUNTER,
                   OBJECT_ID_CACHE, OBJECT_SIGNATURE_CACHE,
                   STRUCTURE_INFO_CACHE, globalConfig, stable, runs>>

\* importStructureState(state)
CallImportStructureState(state) ==
    \E g \in {ImportStructureState(state)} :
       /\ SetWorld(g.w)
       /\ last' = [NoCall EXCEPT !.op = "importStructureState",
                                 !.state = state, !.thrown = g.thrown,
                                 !.error = g.error]
       /\ runs' = <<>>
       /\ UNCHANGED <<heap, globalConfig, stable>>

\* getCompactId(obj, config)
CallGetCompactId(obj, config) ==
    \E g \in {GetCompactId(heap, World, globalConfig, obj, config)} :
       /\ \A x \in DOMAIN g.w.ctr : g.w.ctr[x].whole <= MaxCount + 1
       /\ SetWorld(g.w)
       /\ last' = Call("getCompactId", obj, config, g)
       /\ runs' = <<>>
       /\ UNCHANGED <<heap, globalConfig, stable>>

\* getCompactInfo(obj, config)
CallGetCompactInfo(obj, config) ==
    \E g \in {GetCompactInfo(heap, World, globalConfig, obj, config)} :
    LET b == g.ret
    IN /\ SetWorld(g.w)
       /\ last' = IF g.thrown THEN Call("getCompactInfo", obj, config, g)
                  ELSE [Call("getCompactInfo", obj, config, g) EXCEPT
                          !.ret = b.id, !.levels = b.levels,
                          !.collisionCount = b.collisionCount]
       /\ UNCHANGED <<heap, globalConfig, stable, runs>>

(***************************************************************************)
(* Spec: the public operations on reference values, in any order.  The     *)
(* heap is one of three small heaps: two records of one shape; an empty    *)
(* record and an empty sequence; a record that refers to itself and to a   *)
(* sequence that refers back to it.                                        *)
(***************************************************************************)
SpecHeaps ==
    {<<Obj(<<<<"a">>>>, <<Scalar("number", 0)>>),
       Obj(<<<<"a">>>>, <<Scalar("number", 1)>>)>>,
     <<Obj(<<>>, <<>>), Arr(<<>>)>>,
     <<Obj(<<<<"a">>, <<"b">>>>, <<Ref(2), Ref(1)>>),
       Arr(<<Ref(1), Scalar("null", 0)>>)>>}

CallConfigs == {NoConfig, "on", "off"}
RegCounts == {0, MaxCount}

\* the signatures registerStructureSignatures is given: those of the heap's
\* values and one that no value has
RegSignatures ==
    {FreshSignature(heap, Ref(r)) : r \in Refs} \cup {<<"L", "1", ":", "7">>}

Init == heap \in SpecHeaps /\ InitState

\* one more call, while the budget of calls lasts
Tick == ncalls < MaxCalls /\ ncalls' = ncalls + 1

Next ==
    \/ \E r \in Refs, config \in CallConfigs :
           Tick /\ CallGenerateStructureId(Ref(r), config)
    \/ \E r \in Refs : Tick /\ CallGetStructureSignature(Ref(r))
    \/ \E r \in Refs, config \in CallConfigs :
           Tick /\ CallGetStructureInfo(Ref(r), config)
    \/ \E r \in Refs, c \in RegCounts :
           Tick /\ CallRegisterStructure(Ref(r), Whole(c))
    \/ \E sig \in RegSignatures, c \in RegCounts :
           Tick /\ CallRegisterStructureSignatures(
                       <<[signature |-> sig, count |-> Whole(c)]>>)
    \/ \E config \in Configs : Tick /\ CallSetStructureIdConfig(config)
    \/ Tick /\ CallResetState

Spec == Init /\ [][Next]_vars

(***************************************************************************)
(* SpecShape: generateStructureId as a function of the value's shape.      *)
(* The heap is drawn from two families.  A flat heap holds two roots, each *)
(* a record over the keys a and b (in either insertion order) or a         *)
(* sequence, of scalars.  A nested heap holds two roots 1 and 2, records   *)
(* whose properties refer to the children 3 and 4 or to the root itself,   *)
(* and the children hold scalars or refer back to root 1.                  *)
(***************************************************************************)
KA == <<"a">>
KB == <<"b">>
KX == <<"x">>
KY == <<"y">>

N0 == Scalar("number", 0)
N1 == Scalar("number", 1)
S0 == Scalar("string", 0)

FlatVals == {N0, N1, S0}
ElemVals == {N0, S0}

KeyOrders(k1, k2) == {<<k1>>, <<k2>>, <<k1, k2>>, <<k2, k1>>}

RecordsOver(keyOrders, values) ==
    {Obj(ks, vs) : ks \in keyOrders, vs \in UNION {[1..n -> values] : n \in 1..2}}
    \cap {o \in [kind : {"object"}, keys : keyOrders,
                 vals : UNION {[1..n -> values] : n \in 1..2}] :
            Len(o.keys) = Len(o.vals)}

FlatObjs ==
    RecordsOver(KeyOrders(KA, KB), FlatVals)
    \cup {Arr(vs) : vs \in UNION {[1..n -> ElemVals] : n \in 1..3}}

FlatHeaps == [1..2 -> FlatObjs]

ChildObjs ==
    {Obj(<<KX>>, <<N0>>), Obj(<<KX, KY>>, <<N0, N0>>),
     Obj(<<KY, KX>>, <<N0, N0>>), Arr(<<N0>>), Arr(<<S0>>),
     Obj(<<KX>>, <<Ref(1)>>), Obj(<<>>, <<>>)}

NestedRoots(self, keyOrders) ==
    RecordsOver(keyOrders, {Ref(3), Ref(4), Ref(self)})

NestedHeaps ==
    {<<r1, r2, c3, c4>> :
        r1 \in NestedRoots(1, {<<KA, KB>>}),
        r2 \in NestedRoots(2, {<<KB, KA>>}),
        c3 \in ChildObjs, c4 \in ChildObjs}

ShapeHeaps == FlatHeaps \cup NestedHeaps

InitShape == heap \in ShapeHeaps /\ InitState

NextShape ==
    \E r \in {1, 2} :
        /\ r \notin DOMAIN stable
        /\ CallGenerateStructureId(Ref(r), NoConfig)
        /\ ncalls' = ncalls + 1

SpecShape == InitShape /\ [][NextShape]_vars

(***************************************************************************)
(* Shape relations between two values of a heap, stated on the values and  *)
(* not on the identifier.  Match walks the two value graphs together,      *)
(* property by property (by key name for records, by index for             *)
(* sequences); f says what has to agree:                                   *)
(*   f.order    the insertion order of the keys of matched records         *)
(*   f.values   the data of matched scalars                                *)
(*   f.types    the type categories of matched scalars                     *)
(*   f.sharing  which positions hold the same object (the sharing and      *)
(*              cycle pattern)                                             *)
(* Keys, key counts, sequence lengths and nesting always have to agree.    *)
(* m is the set of object pairs already matched; the result is [ok, m].    *)
(***************************************************************************)
KeySet(obj) == {obj.keys[i] : i \in 1..Len(obj.keys)}

RECURSIVE Match(_, _, _, _, _)
RECURSIVE MatchProps(_, _, _, _, _, _, _)

\* the properties keys[i..] of records a and b (or elements i.. of sequences)
MatchProps(h, f, a, b, keys, i, m) ==
    LET n == IF a.kind = "object" THEN Len(keys) ELSE Len(a.vals)
    IN IF i > n THEN [ok |-> TRUE, m |-> m]
       ELSE LET va == IF a.kind = "object" THEN PropOf(a, keys[i]) ELSE a.vals[i]
                vb == IF b.kind = "object" THEN PropOf(b, keys[i]) ELSE b.vals[i]
                r == Match(h, f, va, vb, m)
            IN IF r.ok THEN MatchProps(h, f, a, b, keys, i + 1, r.m) ELSE r

Match(h, f, va, vb, m) ==
    IF ~IsRef(va) /\ ~IsRef(vb)
    THEN [ok |-> /\ f.types => va.t = vb.t
                 /\ f.values => va = vb,
          m |-> m]
    ELSE IF ~IsRef(va) \/ ~IsRef(vb) THEN [ok |-> FALSE, m |-> m]
    ELSE IF <<va.r, vb.r>> \in m THEN [ok |-> TRUE, m |-> m]
    ELSE IF f.sharing /\ \E p \in m : p[1] = va.r \/ p[2] = vb.r
    THEN [ok |-> FALSE, m |-> m]
    ELSE LET a == h[va.r]
             b == h[vb.r]
         IN IF \/ a.kind # b.kind
               \/ KeySet(a) # KeySet(b)
               \/ Len(a.vals) # Len(b.vals)
               \/ f.order /\ a.keys # b.keys
            THEN [ok |-> FALSE, m |-> m]
            ELSE MatchProps(h, f, a, b, SortKeys(a.keys), 1,
                            m \cup {<<va.r, vb.r>>})

Matches(f, a, b) == Match(heap, f, Ref(a), Ref(b), {}).ok

\* the same value up to the insertion order of properties
SameUpToOrder(a, b) ==
    Matches([order |-> FALSE, values |-> TRUE, types |-> TRUE, sharing |-> TRUE], a, b)

\* the same value up to the data of the leaf scalars
SameUpToValues(a, b) ==
    Matches([order |-> TRUE, values |-> FALSE, types |-> TRUE, sharing |-> TRUE], a, b)

\* the same keys, key counts, sequence lengths and nesting at every position
SameSkeleton(a, b) ==
    Matches([order |-> FALSE, values |-> FALSE, types |-> FALSE, sharing |-> FALSE], a, b)

\* the same skeleton and the same sharing pattern
SameSkeletonAndSharing(a, b) ==
    Matches([order |-> FALSE, values |-> FALSE, types |-> FALSE, sharing |-> TRUE], a, b)

\* the same skeleton, sharing pattern and scalar type categories
SameTypes(a, b) ==
    Matches([order |-> FALSE, values |-> FALSE, types |-> TRUE, sharing |-> TRUE], a, b)

Fingerprinted == DOMAIN stable

(***************************************************************************)
(* Claims about the identifier as a function of the shape (SpecShape).     *)
(***************************************************************************)
\* C1: two records that are the same up to the insertion order of their
\* properties, at any depth, get equal stable-mode identifiers.
C1_OrderIndependence ==
    \A a, b \in Fingerprinted : SameUpToOrder(a, b) => stable[a] = stable[b]

\* both roots fingerprinted, equal up to order, inserted in different orders
\* at the root and in a nested record
C1_Witness ==
    /\ {1, 2} \subseteq Fingerprinted
    /\ SameUpToOrder(1, 2)
    /\ heap[1].keys # heap[2].keys
    /\ \E i, j \in 1..2 :
          /\ heap[1].keys[i] = heap[2].keys[j]
          /\ IsRef(heap[1].vals[i]) /\ IsRef(heap[2].vals[j])
          /\ heap[heap[1].vals[i].r].keys # heap[heap[2].vals[j].r].keys

\* C2: two values that differ only in the data of their leaf scalars get
\* equal stable-mode identifiers, whichever was fingerprinted first.
C2_ValueIndependence ==
    \A a, b \in Fingerprinted : SameUpToValues(a, b) => stable[a] = stable[b]

\* both roots fingerprinted, the second first; they differ in a scalar's data
C2_Witness ==
    /\ {1, 2} \subseteq Fingerprinted
    /\ last.arg = Ref(1)
    /\ SameUpToValues(1, 2)
    /\ heap[1] # heap[2]

NonEmptyRecord(r) == heap[r].kind = "object" /\ heap[r].keys # <<>>

\* C3: two non-empty records that differ in a key set, a key count, the
\* nesting depth or a sequence's element count, at the root or below it,
\* get different stable-mode identifiers.
C3_ShapeSensitivity ==
    \A a, b \in Fingerprinted :
        (NonEmptyRecord(a) /\ NonEmptyRecord(b) /\ ~SameSkeleton(a, b))
            => stable[a] # stable[b]

\* C4: two values with the same keys and sequence lengths everywhere whose
\* scalar type categories differ at some position get different
\* stable-mode identifiers.
C4_TypeSensitivity ==
    \A a, b \in Fingerprinted :
        (SameSkeletonAndSharing(a, b) /\ ~SameTypes(a, b))
            => stable[a] # stable[b]

(***************************************************************************)
(* SpecScalar: the operations on roots that are neither records nor        *)
(* sequences.  No object is allocated; the roots are the scalars of every  *)
(* category, with a falsy and a truthy datum where the category has both.  *)
(***************************************************************************)
ScalarCategories ==
    {"number", "string", "boolean", "bigint", "null", "undefined", "symbol",
     "function"}

Scalars ==
    {Scalar(t, 0) : t \in ScalarCategories \ {"symbol", "function"}}
        \cup {Scalar(t, 1) : t \in ScalarCategories \ {"null", "undefined"}}

InitScalar == heap = <<>> /\ InitState

NextScalar ==
    \/ \E s \in Scalars, config \in CallConfigs :
           Tick /\ CallGenerateStructureId(s, config)
    \/ \E s \in Scalars : Tick /\ CallGetStructureSignature(s)
    \/ \E s \in Scalars, config \in CallConfigs :
           Tick /\ CallGetStructureInfo(s, config)
    \/ \E c \in RegCounts : Tick /\ CallRegisterStructure(Scalar("number", 1), Whole(c))
    \/ \E config \in Configs : Tick /\ CallSetStructureIdConfig(config)
    \/ Tick /\ CallResetState

SpecScalar == InitScalar /\ [][NextScalar]_vars

(***************************************************************************)
(* Claims about the operations in any order (Spec, SpecScalar).            *)
(***************************************************************************)
StableIdCall ==
    /\ last.op = "generateStructureId"
    /\ ~last.dis
    /\ IsRef(last.arg)
    /\ ~last.thrown

\* C5: a stable-mode generateStructureId call on an object returns the
\* string the previous stable-mode call on that object returned, whatever
\* operations ran between the two.
C5_Idempotence == (StableIdCall /\ last.prev # <<>>) => last.ret = last.prev

\* a repeated stable-mode call answered from the identifier cache after a
\* disambiguating call or a registration has set a counter
C5_Witness ==
    /\ StableIdCall
    /\ last.prev # <<>>
    /\ last.calls = 0
    /\ STRUCTURE_HASH_COUNTER # <<>>

\* "L0:<n>-<signature>"
RunId(n, signature) == Join(<<<<"L", "0", ":">> \o Dec(n), signature>>, <<"-">>)

InRun == last.op = "generateStructureId" /\ last.nth >= 0

\* C6 as stated: from no counter for a signature, the n-th (from 0)
\* disambiguating-mode call on a value of that signature returns depth-0
\* segment n followed by the signature, for every signature a value has.
C6_EverySignature ==
    InRun => last.ret = RunId(last.nth, FreshSignature(heap, last.arg))

\* C6: the same for the values that are non-empty records or sequences.
C6_DisambiguationRun ==
    (InRun /\ heap[last.arg.r].vals # <<>>)
        => last.ret = RunId(last.nth, FreshSignature(heap, last.arg))

\* the third call of a run that went over two distinct objects of one
\* signature
C6_Witness ==
    /\ InRun
    /\ last.nth = 2
    /\ {1, 2} \subseteq DOMAIN OBJECT_SIGNATURE_CACHE
    /\ heap[1].vals # <<>>
    /\ FreshSignature(heap, Ref(1)) = FreshSignature(heap, Ref(2))

\* C7: a stable-mode generateStructureId call returns the identifier a
\* freshly reset process gives the value, in every reachable state.
C7_Determinism == StableIdCall => last.ret = FreshId(heap, last.arg)

\* an identifier computed anew for an object fingerprinted before a reset
C7_Witness ==
    /\ StableIdCall
    /\ last.prev # <<>>
    /\ last.calls > 0

ClaimedBit ==
    [number |-> 1, string |-> 2, boolean |-> 4, bigint |-> 8, null |-> 16,
     undefined |-> 32, symbol |-> 64, function |-> 0]

\* C9: generateStructureId on a root that is neither a record nor a
\* sequence returns "L0:b-L1:b", b the discriminant of the root's category.
C9_ScalarRoots ==
    (last.op = "generateStructureId" /\ ~IsRef(last.arg))
        => last.ret = <<"L", "0", ":">> \o Dec(ClaimedBit[last.arg.t])
                          \o <<"-", "L", "1", ":">> \o Dec(ClaimedBit[last.arg.t])

\* the number of property and element slots of the objects in S
RECURSIVE Slots(_)
Slots(S) ==
    IF S = {} THEN 0
    ELSE LET r == CHOOSE x \in S : TRUE
         IN Len(heap[r].vals) + Slots(S \ {r})

\* C10: generateStructureId on an object returns an identifier, iterates
\* the children of each object at most once, and makes at most one
\* processStructure call for the root and one per slot of the heap.
C10_CycleTermination ==
    (last.op = "generateStructureId" /\ IsRef(last.arg))
        => /\ ~last.thrown
           /\ Len(last.ret) > 0
           /\ \A i, j \in DOMAIN last.desc :
                  last.desc[i] = last.desc[j] => i = j
           /\ last.calls <= 1 + Slots(Refs)

\* a traversal from a record through a sequence back to the record
C10_Witness ==
    /\ last.op = "generateStructureId"
    /\ last.arg = Ref(1)
    /\ Len(heap) = 2
    /\ \E i \in DOMAIN heap[1].vals : heap[1].vals[i] = Ref(2)
    /\ \E i \in DOMAIN heap[2].vals : heap[2].vals[i] = Ref(1)
    /\ last.desc = <<1, 2>>
    /\ last.calls = 1 + Slots(Refs)

(***************************************************************************)
(* SpecInfo: identifiers, signatures, info bundles and their compact       *)
(* forms on two records of one shape and on a number, with counters set    *)
(* by registration to a whole count or to 1.5.                             *)
(***************************************************************************)
InfoHeap ==
    <<Obj(<<<<"a">>>>, <<Scalar("number", 0)>>),
      Obj(<<<<"a">>>>, <<Scalar("number", 1)>>)>>

ModeConfigs == {"on", "off"}

\* the counts registerStructure is given
OneAndAHalf == Num(1, TRUE)
InfoCounts == {Whole(MaxCount), OneAndAHalf}

InitInfo == heap = InfoHeap /\ InitState

NextInfo ==
    \/ \E r \in Refs, config \in ModeConfigs :
           Tick /\ CallGenerateStructureId(Ref(r), config)
    \/ Tick /\ CallGetStructureSignature(Ref(1))
    \/ \E obj \in {Ref(1), Scalar("number", 1)}, config \in ModeConfigs :
           Tick /\ CallGetStructureInfo(obj, config)
    \/ \E config \in ModeConfigs : Tick /\ CallGetCompactId(Ref(1), config)
    \/ \E config \in ModeConfigs : Tick /\ CallGetCompactInfo(Ref(1), config)
    \/ \E obj \in {Ref(1), Scalar("number", 1)}, c \in InfoCounts :
           Tick /\ CallRegisterStructure(obj, c)
    \/ Tick /\ CallRegisterStructureSignatures(
                   <<[signature |-> FreshSignature(heap, Ref(1)),
                      count |-> Whole(1)]>>)
    \/ \E config \in Configs : Tick /\ CallSetStructureIdConfig(config)

SpecInfo == InitInfo /\ [][NextInfo]_vars

(***************************************************************************)
(* Claims about SpecInfo and SpecState.                                    *)
(***************************************************************************)
ReadingOps ==
    {"generateStructureId", "getStructureSignature", "getStructureInfo",
     "getCompactId", "getCompactInfo"}

\* C11: generateStructureId, getStructureSignature, getStructureInfo,
\* getCompactId and getCompactInfo never throw, for any value, in either
\* mode and in every state the public operations reach, among them states
\* whose counters were set by registerStructure.
C11_NeverRaise == last.op \in ReadingOps => ~last.thrown

\* a disambiguating-mode call on a value whose signature's counter was
\* registered as 1.5 has thrown
C11_Witness ==
    /\ last.op \in ReadingOps
    /\ last.dis
    /\ last.thrown
    /\ \E sig \in DOMAIN STRUCTURE_HASH_COUNTER :
           STRUCTURE_HASH_COUNTER[sig] = OneAndAHalf

(***************************************************************************)
(* SpecState: export, import and reset of the process-wide state, between  *)
(* calls that fill the key map, the counters and the caches.  A snapshot   *)
(* given to importStructureState is the one exportStructureState has just  *)
(* returned, or one written by hand: well-formed with the bit of key a     *)
(* written "7" or "07", or with a key map entry that is not a number       *)
(* after one that is, or with a counter that is 1.5 or negative, or with   *)
(* a bit that is larger than every hash.                                   *)
(***************************************************************************)
Canonical ==
    StructureState(<<Entry(<<"a">>, <<"7">>)>>,
                   FreshSignature(InfoHeap, Ref(1)) :> Whole(MaxCount))
Padded == StructureState(<<Entry(<<"a">>, <<"0", "7">>)>>, <<>>)
NonNumeric ==
    StructureState(<<Entry(<<"a">>, <<"7">>), Entry(<<"b">>, <<"z">>)>>,
                   FreshSignature(InfoHeap, Ref(1)) :> Whole(1))
Fractional ==
    StructureState(<<>>, FreshSignature(InfoHeap, Ref(1)) :> OneAndAHalf)
Negative ==
    StructureState(<<>>, FreshSignature(InfoHeap, Ref(1)) :> Whole(-1))

\* the bit of a key of no value, above every value of the hash primitive
Large ==
    StructureState(<<Entry(<<"b">>,
                           <<"2", "0", "0", "0", "0", "0", "0", "0", "0", "0">>)>>,
                   <<>>)

ImportStates == {Canonical, Padded, NonNumeric, Fractional, Negative, Large}

InitStateSpec == heap = InfoHeap /\ InitState

NextState ==
    \/ \E r \in Refs, config \in ModeConfigs :
           Tick /\ CallGenerateStructureId(Ref(r), config)
    \/ Tick /\ CallGetStructureInfo(Ref(1), "off")
    \/ \E c \in InfoCounts : Tick /\ CallRegisterStructure(Ref(1), c)
    \/ Tick /\ CallResetState
    \/ Tick /\ CallExportStructureState
    \/ \E state \in ImportStates : Tick /\ CallImportStructureState(state)
    \/ /\ last.op = "exportStructureState"
       /\ Tick /\ CallImportStructureState(last.state)

SpecState == InitStateSpec /\ [][NextState]_vars

\* the state importStructureState(exportStructureState()) leaves
RoundTrip(w) == ImportStructureState(ExportStructureState(w))

SameOutcome(g1, g2) ==
    /\ g1.thrown = g2.thrown
    /\ g1.ret = g2.ret
    /\ g1.w.km = g2.w.km
    /\ g1.w.ctr = g2.w.ctr

\* C12: export/import round trip: in every state,
\* importStructureState(exportStructureState()) leaves every
\* generateStructureId call, in stable and in disambiguating mode, with the
\* outcome it has without the round trip (the identifier returned or the
\* error thrown, and the key map and the counters it leaves, which decide
\* the calls after it); a process that starts by importing the snapshot is
\* in the state the round trip leaves.
C12_ExportImportRoundTrip ==
    /\ ~RoundTrip(World).thrown
    /\ \A r \in Refs, config \in ModeConfigs :
           SameOutcome(GenerateStructureId(heap, World, globalConfig, Ref(r),
                                           config),
                       GenerateStructureId(heap, RoundTrip(World).w,
                                           globalConfig, Ref(r), config))

\* the snapshot exported after a disambiguating-mode call was imported:
\* the key map holds the bits the call derived and the counter is 1
C12_Witness ==
    /\ last.op = "importStructureState"
    /\ ~last.thrown
    /\ last.state = ExportStructureState(World)
    /\ GLOBAL_KEY_MAP # <<>>
    /\ \E sig \in DOMAIN STRUCTURE_HASH_COUNTER :
           STRUCTURE_HASH_COUNTER[sig] = Whole(1)

\* a snapshot of the StateSnapshot format: key map values that are strings
\* of decimal digits, counters that are non-negative integers
WellFormed(state) ==
    /\ \A i \in 1..Len(state.keyMap) : IsDigits(state.keyMap[i].value, 10)
    /\ \A sig \in DOMAIN state.collisionCounters :
           /\ IsInteger(state.collisionCounters[sig])
           /\ state.collisionCounters[sig].whole >= 0

\* the key map values are written the way BigInt.toString() writes them
CanonicalDigits(state) ==
    \A i \in 1..Len(state.keyMap) :
        state.keyMap[i].value = Dec(ParseDigits(state.keyMap[i].value, 10))

SameSnapshot(s1, s2) ==
    /\ FromEntries(s1.keyMap) = FromEntries(s2.keyMap)
    /\ s1.collisionCounters = s2.collisionCounters

\* C13 as stated: for every well-formed snapshot s,
\* exportStructureState() right after importStructureState(s) returns
\* exactly the key map and counter entries of s, whatever the state before
\* the import.
C13_SnapshotRoundTrip ==
    last.op = "importStructureState" /\ WellFormed(last.state) =>
        /\ ~last.thrown
        /\ SameSnapshot(ExportStructureState(World), last.state)

\* C13: the same for the well-formed snapshots whose key map values are
\* canonical decimal integers.
C13_CanonicalSnapshotRoundTrip ==
    /\ last.op = "importStructureState"
    /\ WellFormed(last.state)
    /\ CanonicalDigits(last.state)
    => /\ ~last.thrown
       /\ SameSnapshot(ExportStructureState(World), last.state)

\* a hand-written snapshot with a key map entry and a counter was imported
\* into a process that had computed identifiers
C13_Witness ==
    /\ last.op = "importStructureState"
    /\ last.state = Canonical
    /\ stable # <<>>
    /\ SameSnapshot(ExportStructureState(World), Canonical)

\* a snapshot that is not of the StateSnapshot format: a key map value that
\* is not a number, or a counter that is negative or not an integer
Malformed(state) ==
    \/ \E i \in 1..Len(state.keyMap) :
           ~StringToBigInt(state.keyMap[i].value).ok
    \/ \E sig \in DOMAIN state.collisionCounters :
           \/ ~IsInteger(state.collisionCounters[sig])
           \/ state.collisionCounters[sig].whole < 0

\* C14: importStructureState given a malformed snapshot throws a
\* MalformedStateError.
C14_MalformedRejected ==
    last.op = "importStructureState" /\ Malformed(last.state) =>
        last.thrown /\ last.error = "MalformedStateError"

\* a snapshot with a counter of 1.5 was imported and the counter is stored
C14_Witness ==
    /\ last.op = "importStructureState"
    /\ last.state = Fractional
    /\ ~last.thrown
    /\ \E sig \in DOMAIN STRUCTURE_HASH_COUNTER :
           STRUCTURE_HASH_COUNTER[sig] = OneAndAHalf

\* C15: an importStructureState call that throws leaves the key map, the
\* counters and the three caches as they were before the call.
C15_AtomicImport ==
    [][(last'.op = "importStructureState" /\ last'.thrown) =>
           UNCHANGED <<GLOBAL_KEY_MAP, STRUCTURE_HASH_COUNTER,
                       OBJECT_ID_CACHE, OBJECT_SIGNATURE_CACHE,
                       STRUCTURE_INFO_CACHE>>]_vars

\* an import has thrown after storing the bit of the entry before the one
\* that is not a number, in a process that had computed identifiers
C15_Witness ==
    /\ last.op = "importStructureState"
    /\ last.thrown
    /\ stable # <<>>
    /\ OBJECT_ID_CACHE = <<>>
    /\ GLOBAL_KEY_MAP = (<<"a">> :> 7)

\* C16: after resetState the key map and the counter map are empty and no
\* cache holds an entry; after importStructureState, which starts with the
\* same reset, no cache holds an entry and the key map and the counter map
\* hold nothing but entries of the snapshot.
C16_ResetClears ==
    /\ last.op \in {"resetState", "importStructureState"} =>
           /\ OBJECT_ID_CACHE = <<>>
           /\ OBJECT_SIGNATURE_CACHE = <<>>
           /\ STRUCTURE_INFO_CACHE = <<>>
           /\ DOMAIN GLOBAL_KEY_MAP \subseteq DOMAIN FromEntries(last.state.keyMap)
           /\ DOMAIN STRUCTURE_HASH_COUNTER
                  \subseteq DOMAIN last.state.collisionCounters

\* resetState ran in a process that had computed an identifier
C16_Witness ==
    /\ last.op = "resetState"
    /\ stable # <<>>
    /\ GLOBAL_KEY_MAP = <<>>

\* the identifier is its first segment followed by the signature
SignatureIsRest(id, signature) ==
    id = Join(<<Head(Split(id, "-")), signature>>, <<"-">>)

\* the identifier is the depth-0 segment of the signature's count followed
\* by the signature
CountedSignature(id, signature) ==
    id = RunId(CountOf(STRUCTURE_HASH_COUNTER, signature).whole, signature)

SignatureAgrees(signature, stableId, g) ==
    /\ SignatureIsRest(stableId, signature)
    /\ ~g.thrown => CountedSignature(g.ret, signature)

\* C17: in every state and for every object, getStructureSignature returns
\* the stable-mode identifier without its depth-0 segment, which is also
\* what follows the depth-0 segment of the identifier a disambiguating-mode
\* generateStructureId call returns, whether or not the signature cache
\* holds the object.
C17_SignatureIsIdRest ==
    \A r \in Refs :
        SignatureAgrees(
            GetStructureSignature(heap, World, globalConfig, Ref(r)).ret,
            GenerateStructureId(heap, World, globalConfig, Ref(r), "off").ret,
            GenerateStructureId(heap, World, globalConfig, Ref(r), "on"))

\* the signature cache holds the signature a disambiguating-mode call that
\* found a count of 1 stored for the first object
C17_Witness ==
    /\ last.op = "generateStructureId"
    /\ last.dis
    /\ last.arg = Ref(1)
    /\ 1 \in DOMAIN OBJECT_SIGNATURE_CACHE
    /\ last.ret = RunId(1, OBJECT_SIGNATURE_CACHE[1])

\* C18: the collisionCount getStructureInfo returns is the counter's entry
\* for the value's signature at the time of the call, 0 if it has none,
\* also when the counter changed after an earlier getStructureInfo call on
\* the value.
C18_CurrentCount ==
    last.op = "getStructureInfo" /\ ~last.thrown =>
        last.collisionCount =
            CountOf(STRUCTURE_HASH_COUNTER,
                    GetStructureSignature(heap, World, globalConfig,
                                          last.arg).ret)

\* getStructureInfo has returned the cached bundle, with count 0, for an
\* object whose signature's counter a registration has set since
C18_Witness ==
    /\ last.op = "getStructureInfo"
    /\ last.arg = Ref(1)
    /\ ~last.thrown
    /\ last.collisionCount = Whole(0)
    /\ 1 \in DOMAIN OBJECT_SIGNATURE_CACHE
    /\ CountOf(STRUCTURE_HASH_COUNTER, OBJECT_SIGNATURE_CACHE[1])
           = Whole(MaxCount)

\* C19: getStructureInfo and getStructureSignature, in either mode, and
\* generateStructureId in stable mode leave the counter map as it is.
C19_CounterFrame ==
    [][(\/ last'.op \in {"getStructureInfo", "getStructureSignature"}
        \/ last'.op = "generateStructureId" /\ ~last'.dis)
           => STRUCTURE_HASH_COUNTER' = STRUCTURE_HASH_COUNTER]_vars

\* getStructureInfo has run in disambiguating mode on an object whose
\* signature has a counter, and the counter is what the registration set
C19_Witness ==
    /\ last.op = "getStructureInfo"
    /\ last.dis
    /\ ~last.thrown
    /\ last.collisionCount = Whole(MaxCount)
    /\ 1 \in DOMAIN OBJECT_SIGNATURE_CACHE
    /\ CountOf(STRUCTURE_HASH_COUNTER, OBJECT_SIGNATURE_CACHE[1])
           = Whole(MaxCount)

\* C20: in every bundle getStructureInfo returns, levels is the number of
\* "-"-separated segments of id, also after getCompactInfo calls on the
\* value.
C20_LevelsCountSegments ==
    last.op = "getStructureInfo" /\ ~last.thrown =>
        last.levels = Len(Split(last.ret, "-"))

\* getStructureInfo has returned the bundle getCompactInfo left in the
\* cache: the id is a digest, one segment, and levels is 2
C20_Witness ==
    /\ last.op = "getStructureInfo"
    /\ last.arg = Ref(1)
    /\ ~last.thrown
    /\ last.levels = 2
    /\ Len(Split(last.ret, "-")) = 1
    /\ STRUCTURE_INFO_CACHE[1].id = last.ret

\* the identifier a stable-mode generateStructureId call on the value of
\* the last call returns in the current state
StableIdNow ==
    GenerateStructureId(heap, World, globalConfig, last.arg, "off").ret

\* C21: in stable mode the id of the bundle getStructureInfo returns is the
\* identifier stable-mode generateStructureId returns for the value,
\* whatever calls were made on the value before.
C21_StableInfoId ==
    last.op = "getStructureInfo" /\ ~last.dis /\ ~last.thrown =>
        last.ret = StableIdNow

\* a stable-mode getStructureInfo call has returned the bundle a
\* disambiguating-mode getStructureInfo call cached: its id is L0:0 and
\* the signature
C21_Witness ==
    /\ last.op = "getStructureInfo"
    /\ ~last.dis
    /\ ~last.thrown
    /\ last.arg = Ref(1)
    /\ 1 \in DOMAIN OBJECT_SIGNATURE_CACHE
    /\ last.ret = RunId(0, OBJECT_SIGNATURE_CACHE[1])

\* C22: in disambiguating mode the id of the bundle getStructureInfo
\* returns for an object, an empty record or sequence included, is the
\* identifier a disambiguating-mode generateStructureId call made right
\* after it returns.
C22_DisambiguatingInfoId ==
    last.op = "getStructureInfo" /\ last.dis /\ ~last.thrown =>
        last.ret = GenerateStructureId(heap, World, globalConfig, last.arg,
                                       "on").ret

\* a disambiguating-mode getStructureInfo call on an empty record has
\* returned "L0:0-"
C22_Witness ==
    /\ last.op = "getStructureInfo"
    /\ last.dis
    /\ ~last.thrown
    /\ heap[last.arg.r] = Obj(<<>>, <<>>)
    /\ last.ret = <<"L", "0", ":", "0", "-">>

\* C23: getCompactId returns the digest of the identifier
\* generateStructureId returns, and every getCompactInfo call on a value,
\* a repeated one included, returns a bundle whose id is the digest of the
\* full identifier (in stable mode, the digest of the stable identifier).
C23_CompactForms ==
    /\ last.op = "getCompactId" /\ ~last.dis /\ ~last.thrown =>
           last.ret = hash(StableIdNow)
    /\ last.op = "getCompactInfo" /\ ~last.dis /\ ~last.thrown =>
           last.ret = hash(StableIdNow)

\* a repeated stable-mode getCompactInfo call has returned the digest of
\* the digest
C23_Witness ==
    /\ last.op = "getCompactInfo"
    /\ ~last.dis
    /\ ~last.thrown
    /\ last.ret = hash(hash(StableIdNow))

(***************************************************************************)
(* SpecRegister: identifiers in both modes, bundles, registrations of      *)
(* counts and the global configuration, on the heaps of Spec.              *)
(***************************************************************************)
InitRegister == heap \in SpecHeaps /\ InitState

NextRegister ==
    \/ \E r \in Refs, config \in ModeConfigs :
           Tick /\ CallGenerateStructureId(Ref(r), config)
    \/ \E r \in Refs, config \in ModeConfigs :
           Tick /\ CallGetStructureInfo(Ref(r), config)
    \/ \E r \in Refs, c \in RegCounts :
           Tick /\ CallRegisterStructure(Ref(r), Whole(c))
    \/ \E c \in RegCounts :
           Tick /\ CallRegisterStructureSignatures(
                       <<[signature |-> FreshSignature(heap, Ref(1)),
                          count |-> Whole(c)]>>)
    \/ \E config \in ModeConfigs : Tick /\ CallSetStructureIdConfig(config)

SpecRegister == InitRegister /\ [][NextRegister]_vars

Registered ==
    /\ last.op \in {"registerStructure", "registerStructureSignatures"}
    /\ ~last.thrown

\* the signature whose counter the last call, a registration, has set
RegisteredSignature ==
    IF last.op = "registerStructure"
    THEN GetStructureSignature(heap, World, globalConfig, last.arg).ret
    ELSE last.ret

\* the collisionCount getStructureInfo reports for the object in state w
InfoCount(w, r, config) ==
    GetStructureInfo(heap, w, globalConfig, Ref(r), config).ret.collisionCount

\* g is the outcome of a disambiguating-mode generateStructureId call on
\* object r, of the signature registered with count c, made in the current
\* state: it returns depth-0 segment c and leaves the counter at c + 1, and
\* getStructureInfo reports c before it (for an object with no cached
\* bundle) and c + 1 after it
SeededRun(r, signature, c, g) ==
    /\ ~g.thrown
    /\ g.ret = RunId(c.whole, signature)
    /\ CountOf(g.w.ctr, signature) = Whole(c.whole + 1)
    /\ \A config \in ModeConfigs :
           /\ r \notin DOMAIN STRUCTURE_INFO_CACHE =>
                  InfoCount(World, r, config) = c
           /\ InfoCount(g.w, r, config) = Whole(c.whole + 1)

SeededRuns(rs) ==
    \A r \in rs :
        FreshSignature(heap, Ref(r)) = RegisteredSignature =>
            SeededRun(r, RegisteredSignature, last.collisionCount,
                      GenerateStructureId(heap, World, globalConfig, Ref(r),
                                          "on"))

IsSegment(part, depth) ==
    LET prefix == <<"L">> \o Dec(depth) \o <<":">>
    IN /\ Len(part) > Len(prefix)
       /\ SubSeq(part, 1, Len(prefix)) = prefix
       /\ IsDigits(SubSeq(part, Len(prefix) + 1, Len(part)), 10)

\* the identifier text format: a literal of an empty container, or the
\* segments of depths 0, 1, ... joined by "-"
IdFormat(id) ==
    \/ id \in {<<"{", "}">>, <<"[", "]">>}
    \/ \A i \in 1..Len(Split(id, "-")) : IsSegment(Split(id, "-")[i], i - 1)

\* C25: every identifier generateStructureId returns and every id of a
\* bundle getStructureInfo returns, in either mode and in every state, is
\* "{}" or "[]" or a string of segments L<depth>:<decimal-integer> joined
\* by "-", with the depths 0, 1, ... in order and no empty segment.
C25_IdFormat ==
    last.op \in {"generateStructureId", "getStructureInfo"} /\ ~last.thrown
        => IdFormat(last.ret)

\* a disambiguating-mode getStructureInfo call on an empty sequence has
\* returned an id that ends with an empty segment
C25_Witness ==
    /\ last.op = "getStructureInfo"
    /\ ~last.thrown
    /\ heap[last.arg.r] = Arr(<<>>)
    /\ Split(last.ret, "-") = <<<<"L", "0", ":", "0">>, <<>>>>

\* strings whose key bit is looked at: a key of the records, a key of no
\* value, and a label of the traversal
ProbeKeys == {<<"a">>, <<"b">>, TypeLabel("object")}

\* the integer the hash primitive gives the string
HashBit(key) == ParseHex(xxHash32(key))

ImportedBits(state, key) ==
    IF key \in DOMAIN FromEntries(state.keyMap)
    THEN StringToBigInt(FromEntries(state.keyMap)[key]).value
    ELSE HashBit(key)

C27_DerivedAboveImported ==
    last.op = "importStructureState" /\ ~last.thrown =>
        \A key \in ProbeKeys \ DOMAIN FromEntries(last.state.keyMap) :
            GetBit(GLOBAL_KEY_MAP, key).bit > MaxBit(last.state.keyMap)

\* a snapshot whose largest bit is above the hash of key a was imported
C27_Witness ==
    /\ last.op = "importStructureState"
    /\ ~last.thrown
    /\ last.state = Large
    /\ GetBit(GLOBAL_KEY_MAP, <<"a">>).bit = HashBit(<<"a">>)
    /\ HashBit(<<"a">>) < MaxBit(Large.keyMap)

\* the step is a generateStructureId call on an object that has returned
IdCallStep ==
    /\ last'.op = "generateStructureId"
    /\ IsRef(last'.arg)
    /\ ~last'.thrown

\* the call of the step ran in disambiguating mode or missed the id cache
Recomputing ==
    last'.dis \/ last'.arg.r \notin DOMAIN OBJECT_ID_CACHE

\* C28 as stated: when generateStructureId recomputes the identifier of an
\* object (in disambiguating mode, or in stable mode without an id cache
\* entry), the info cache holds no entry for the object when it returns;
\* a stable-mode call served from the id cache leaves the info cache as it
\* is.
C28_EveryRecompute ==
    [][IdCallStep =>
           IF Recomputing
           THEN last'.arg.r \notin DOMAIN STRUCTURE_INFO_CACHE'
           ELSE STRUCTURE_INFO_CACHE' = STRUCTURE_INFO_CACHE]_vars

\* C28: the same for non-empty records and sequences; a call on an empty
\* record or sequence leaves the info cache as it is.
C28_RecomputeDropsInfo ==
    [][IdCallStep =>
           IF Recomputing /\ heap[last'.arg.r].vals # <<>>
           THEN last'.arg.r \notin DOMAIN STRUCTURE_INFO_CACHE'
           ELSE STRUCTURE_INFO_CACHE' = STRUCTURE_INFO_CACHE]_vars

\* a disambiguating-mode call has recomputed the identifier of a record
\* that has a cached identifier; the info cache holds the other record's
\* bundle only
C28_Witness ==
    /\ last.op = "generateStructureId"
    /\ last.dis
    /\ ~last.thrown
    /\ last.arg = Ref(1)
    /\ last.calls > 0
    /\ 1 \in DOMAIN OBJECT_ID_CACHE
    /\ DOMAIN STRUCTURE_INFO_CACHE = {2}

\* C29: a disambiguating-mode generateStructureId call on an object leaves
\* the id cache as it is and, when the object is not empty, traverses it
\* even when the id cache holds an identifier for it; and a stable-mode
\* call on an object returns the identifier of a freshly reset process,
\* never one that carries a counter.
C29_IdCacheBypass ==
    [][(last'.op = "generateStructureId" /\ IsRef(last'.arg)) =>
           /\ last'.dis =>
                  /\ OBJECT_ID_CACHE' = OBJECT_ID_CACHE
                  /\ (~last'.thrown /\ heap[last'.arg.r].vals # <<>>)
                         => last'.calls > 0
           /\ (~last'.dis /\ ~last'.thrown)
                  => last'.ret = FreshId(heap, last'.arg)]_vars

\* a disambiguating-mode call has traversed a record whose stable
\* identifier is cached and has returned another identifier
C29_Witness ==
    /\ last.op = "generateStructureId"
    /\ last.dis
    /\ ~last.thrown
    /\ last.arg = Ref(1)
    /\ 1 \in DOMAIN OBJECT_ID_CACHE
    /\ last.calls > 0
    /\ last.ret # OBJECT_ID_CACHE[1]

(***************************************************************************)
(* The reference accumulator: the contributions of a walk, as pairs        *)
(* <<level, amount>>, summed per level over the seed 1 << level.  With     *)
(* `doc` the walk uses the labels "type:record" and "type:sequence" and    *)
(* the discriminant of typeof c for a child c; without it the labels       *)
(* "type:object" and "type:array" and the discriminant of c's category.    *)
(***************************************************************************)
\* the bit the key map gives a string
KeyBitNow(key) ==
    IF key \in DOMAIN GLOBAL_KEY_MAP THEN GLOBAL_KEY_MAP[key]
    ELSE ParseHex(xxHash32(key))

RefContainerLabel(kind, doc) ==
    IF ~doc THEN TypeLabel(kind)
    ELSE IF kind = "object"
    THEN <<"t", "y", "p", "e", ":", "r", "e", "c", "o", "r", "d">>
    ELSE <<"t", "y", "p", "e", ":", "s", "e", "q", "u", "e", "n", "c", "e">>

RefChildType(h, child, doc) ==
    IF doc THEN TypeOf(child) ELSE GetType(h, child)

RefAdd(acc, level, amount) ==
    [acc EXCEPT !.cs = Append(@, <<level, amount>>)]

\* the sorted keys of a record, the index labels of a sequence
RefLabels(obj) ==
    IF obj.kind = "object" THEN SortKeys(obj.keys)
    ELSE [i \in 1..Len(obj.vals) |-> IndexLabel(i - 1)]

RefChild(obj, labels, m) ==
    IF obj.kind = "object" THEN PropOf(obj, labels[m]) ELSE obj.vals[m]

RECURSIVE RefWalk(_, _, _, _, _, _)
RECURSIVE RefChildren(_, _, _, _, _, _, _, _)

\* the children from ordinal m on
RefChildren(h, obj, labels, m, level, path, acc, doc) ==
    IF m > Len(labels) THEN acc
    ELSE LET child == RefChild(obj, labels, m)
             a1 == RefAdd(acc, level, KeyBitNow(labels[m]) * m)
             a2 == RefAdd(a1, level, TypeBit(RefChildType(h, child, doc)) * m)
         IN RefChildren(h, obj, labels, m + 1, level, path,
                        RefWalk(h, child, level + 1,
                                Append(path, labels[m]), a2, doc),
                        doc)

\* a container visited for the first time
RefFirstVisit(h, value, level, path, acc, doc) ==
    LET obj == h[value.r]
        a1 == [acc EXCEPT !.om = MapSet(@, value.r,
                                        GetObjectSignature(obj, path))]
        a2 == RefAdd(a1, level, KeyBitNow(RefContainerLabel(obj.kind, doc)))
        a3 == IF obj.kind = "array"
              THEN RefAdd(a2, level, KeyBitNow(LengthLabel(Len(obj.vals))))
              ELSE a2
    IN RefChildren(h, obj, RefLabels(obj), 1, level, path, a3, doc)

RefWalk(h, value, level, path, acc, doc) ==
    LET a1 == RefAdd(acc, level, TypeBit(GetType(h, value)))
    IN IF ~IsRef(value) THEN a1
       ELSE IF value.r \in DOMAIN a1.om
       THEN RefAdd(a1, level, KeyBitNow(CircularLabel(a1.om[value.r])))
       ELSE RefFirstVisit(h, value, level, path, a1, doc)

RECURSIVE RefSum(_, _)
RefSum(cs, level) ==
    IF cs = <<>> THEN 0
    ELSE (IF Head(cs)[1] = level THEN Head(cs)[2] ELSE 0)
         + RefSum(Tail(cs), level)

RefLevel(cs, level) == 2 ^ level + RefSum(cs, level)

RefDepths(cs) == {cs[i][1] : i \in 1..Len(cs)}

RECURSIVE RefParts(_, _)
\* "L" + depth + ":" + value for the depths from `level` on, ascending
RefParts(cs, level) ==
    IF level \notin RefDepths(cs) THEN <<>>
    ELSE <<<<"L">> \o Dec(level) \o <<":">> \o Dec(RefLevel(cs, level))>>
         \o RefParts(cs, level + 1)

RefId(h, value, doc) ==
    Join(RefParts(RefWalk(h, value, 0, <<>>,
                          [om |-> <<>>, cs |-> <<>>], doc).cs, 0),
         <<"-">>)

NonEmptyStableIdCall == StableIdCall /\ heap[last.arg.r].vals # <<>>

\* C30 as stated: a stable-mode generateStructureId call on a non-empty
\* record or sequence returns the levels of the reference accumulator with
\* the container labels "type:record" and "type:sequence" and the
\* discriminant of typeof c for every child c.
C30_DocumentedAccumulator ==
    NonEmptyStableIdCall => last.ret = RefId(heap, last.arg, TRUE)

\* C30: a stable-mode generateStructureId call on a non-empty record or
\* sequence returns the levels of the reference accumulator with the
\* container labels "type:object" and "type:array" and, for every child,
\* the discriminant of its category (null and array apart from object).
C30_ReferenceAccumulator ==
    NonEmptyStableIdCall => last.ret = RefId(heap, last.arg, FALSE)

\* an identifier of three levels computed by a traversal of a record that
\* holds itself and a sequence
C30_Witness ==
    /\ NonEmptyStableIdCall
    /\ last.calls > 0
    /\ heap[last.arg.r].kind = "object"
    /\ \E i \in 1..Len(heap[last.arg.r].vals) :
           heap[last.arg.r].vals[i] = last.arg
    /\ \E i \in 1..Len(heap[last.arg.r].vals) :
           IsArrayIn(heap, heap[last.arg.r].vals[i])
    /\ CalculateIdLevels(last.ret) = 3

(***************************************************************************)
(* Claims about the type discriminants (SpecScalar).                       *)
(***************************************************************************)
TenCategories ==
    {"root", "number", "string", "boolean", "bigint", "null", "undefined",
     "symbol", "object", "array"}

UnsupportedCategories == {"symbol", "function"}

IsPowerOfTwo(n) == \E k \in 0..16 : n = 2 ^ k

ZeroId == <<"L", "0", ":", "0", "-", "L", "1", ":", "0">>

\* C31: the discriminants of the ten categories are pairwise distinct
\* powers of two, and generateStructureId on a root of an unsupported
\* category (symbol, function) returns the identifier of the zero
\* discriminant, "L0:0-L1:0".
C31_TypeDiscriminants ==
    /\ \A t \in TenCategories : IsPowerOfTwo(TYPE_BITS[t])
    /\ \A t, u \in TenCategories : t # u => TYPE_BITS[t] # TYPE_BITS[u]
    /\ (/\ last.op = "generateStructureId"
        /\ ~IsRef(last.arg)
        /\ last.arg.t \in UnsupportedCategories)
           => last.ret = ZeroId

\* generateStructureId has returned the discriminant 64 for a symbol
C31_Witness ==
    /\ last.op = "generateStructureId"
    /\ last.arg.t = "symbol"
    /\ last.ret = <<"L", "0", ":", "6", "4", "-", "L", "1", ":", "6", "4">>
    /\ TYPE_BITS["root"] = 0

(***************************************************************************)
(* SpecConfig: the per-call and the process-wide configuration.  A         *)
(* getStructureIdConfig call returns a copy of globalConfig (held in       *)
(* last.config); the caller may then assign the flag of that copy.         *)
(***************************************************************************)
\* getStructureIdConfig(): return { ...globalConfig }
CallGetStructureIdConfig ==
    /\ last' = [NoCall EXCEPT !.op = "getStructureIdConfig",
                              !.config = globalConfig]
    /\ UNCHANGED <<heap, GLOBAL_KEY_MAP, STRUCTURE_HASH_COUNTER,
                   OBJECT_ID_CACHE, OBJECT_SIGNATURE_CACHE,
                   STRUCTURE_INFO_CACHE, globalConfig, stable, runs>>

\* the caller's assignment copy.newIdOnCollision = flag, on the object the
\* spread in getStructureIdConfig created
MutateConfigCopy(flag) ==
    /\ last.op = "getStructureIdConfig"
    /\ last' = [last EXCEPT !.op = "mutateConfigCopy", !.config = flag]
    /\ UNCHANGED <<heap, GLOBAL_KEY_MAP, STRUCTURE_HASH_COUNTER,
                   OBJECT_ID_CACHE, OBJECT_SIGNATURE_CACHE,
                   STRUCTURE_INFO_CACHE, globalConfig, stable, runs>>

\* the config arguments: absent, {}, and the two flags
ConfigArgs == Configs \cup {NoConfig}

InitConfig == heap = InfoHeap /\ InitState

NextConfig ==
    \/ \E config \in ConfigArgs :
           Tick /\ CallGenerateStructureId(Ref(1), config)
    \/ \E config \in ConfigArgs :
           Tick /\ CallGetStructureInfo(Ref(1), config)
    \/ \E config \in Configs : Tick /\ CallSetStructureIdConfig(config)
    \/ Tick /\ CallGetStructureIdConfig
    \/ \E flag \in ModeConfigs : Tick /\ MutateConfigCopy(flag)

SpecConfig == InitConfig /\ [][NextConfig]_vars

\* the mode the per-call config gives when it has the flag, and the
\* process-wide default otherwise
ResolvedMode(config, gcfg) ==
    IF config \in ModeConfigs THEN config
    ELSE IF gcfg = "on" THEN "on" ELSE "off"

\* C32: a generateStructureId or getStructureInfo call runs in the mode of
\* its config when that config has the flag and in the mode of the default
\* of the latest setStructureIdConfig otherwise (off before any), a
\* generateStructureId call returning what a call with that flag given
\* returns; getStructureIdConfig returns the default and leaves it as it
\* is, and so does an assignment to the copy returned.
C32_ModeResolution ==
    [][/\ last'.op \in {"generateStructureId", "getStructureInfo"} =>
              last'.dis = (ResolvedMode(last'.config, globalConfig) = "on")
       /\ (last'.op = "generateStructureId" /\ ~last'.thrown) =>
              last'.ret = GenerateStructureId(
                              heap, World, globalConfig, last'.arg,
                              ResolvedMode(last'.config, globalConfig)).ret
       /\ last'.op = "getStructureIdConfig" =>
              last'.config = globalConfig /\ globalConfig' = globalConfig
       /\ last'.op = "mutateConfigCopy" => globalConfig' = globalConfig
      ]_vars

\* with the default flag on, a generateStructureId call given {} has run in
\* stable mode and has returned the stable identifier, not the counted one
C32_Witness ==
    /\ globalConfig = "on"
    /\ last.op = "generateStructureId"
    /\ last.config = "unset"
    /\ ~last.dis
    /\ last.ret = FreshId(heap, last.arg)
    /\ last.ret # GenerateStructureId(heap, World, globalConfig, last.arg,
                                      NoConfig).ret

(***************************************************************************)
(* Claims about shared children (SpecShape).                               *)
(***************************************************************************)
\* the object is a record of scalars, a sequence of scalars or empty
Leaf(c) == \A i \in 1..Len(heap[c].vals) : ~IsRef(heap[c].vals[i])

\* record r holds the same leaf object under its two keys
SharedChild(r) ==
    /\ heap[r].kind = "object"
    /\ Len(heap[r].vals) = 2
    /\ heap[r].vals[1] = heap[r].vals[2]
    /\ IsRef(heap[r].vals[1])
    /\ heap[r].vals[1].r \notin {1, 2}
    /\ Leaf(heap[r].vals[1].r)

\* record r holds two distinct leaf objects of one shape under its two keys
TwinChildren(r) ==
    /\ heap[r].kind = "object"
    /\ Len(heap[r].vals) = 2
    /\ IsRef(heap[r].vals[1]) /\ IsRef(heap[r].vals[2])
    /\ {heap[r].vals[1].r, heap[r].vals[2].r} = {3, 4}
    /\ heap[3] = heap[4]
    /\ Leaf(3)

\* a holds one child twice, b two children of that child's shape, under
\* the same two keys
AliasedPair(a, b) ==
    /\ SharedChild(a)
    /\ TwinChildren(b)
    /\ SameSkeleton(a, b)

\* C33: a record that holds one child object under two keys gets the
\* stable-mode identifier of a record that holds two distinct child objects
\* of the same shape under those keys.
C33_Aliasing ==
    \A a, b \in Fingerprinted : AliasedPair(a, b) => stable[a] = stable[b]

\* both records of such a pair are fingerprinted and the identifiers differ
C33_Witness ==
    /\ Fingerprinted = {1, 2}
    /\ AliasedPair(1, 2)
    /\ heap[3].vals # <<>>
    /\ stable[1] # stable[2]

(***************************************************************************)
(* Claims about the bundle getCompactInfo returns (SpecInfo).  The bundle  *)
(* a caller holds for an object is the object the info cache holds, so it  *)
(* changes exactly when the cache entry does.                              *)
(***************************************************************************)
\* C34: a getCompactInfo call on an object leaves the bundle the info cache
\* holds for it (the bundle handed to earlier callers) as it is, and every
\* getStructureInfo call returns an id in the identifier format, not a
\* digest.
C34_CompactInfoFrame ==
    [][/\ (/\ last'.op = "getCompactInfo"
           /\ IsRef(last'.arg)
           /\ ~last'.thrown
           /\ last'.arg.r \in DOMAIN STRUCTURE_INFO_CACHE)
              => STRUCTURE_INFO_CACHE'[last'.arg.r]
                     = STRUCTURE_INFO_CACHE[last'.arg.r]
       /\ (last'.op = "getStructureInfo" /\ ~last'.thrown)
              => IdFormat(last'.ret)
      ]_vars

\* after a getCompactInfo call, getStructureInfo has returned the digest of
\* the stable identifier as the id
C34_Witness ==
    /\ last.op = "getStructureInfo"
    /\ ~last.thrown
    /\ last.arg = Ref(1)
    /\ last.ret = hash(StableIdNow)
    /\ STRUCTURE_INFO_CACHE[1].id = last.ret

(***************************************************************************)
(* SpecKeys: both modes on two records whose root key sets differ: {a: 0}  *)
(* with {b: 0}, and {a: 0} with {a: 0, b: 0}.                              *)
(***************************************************************************)
KeyHeaps ==
    {<<Obj(<<KA>>, <<N0>>), Obj(<<KB>>, <<N0>>)>>,
     <<Obj(<<KA>>, <<N0>>), Obj(<<KA, KB>>, <<N0, N0>>)>>}

InitKeys == heap \in KeyHeaps /\ InitState

NextKeys ==
    \/ \E r \in Refs, config \in ModeConfigs :
           Tick /\ CallGenerateStructureId(Ref(r), config)
    \/ \E r \in Refs : Tick /\ CallGetStructureSignature(Ref(r))
    \/ Tick /\ CallResetState

SpecKeys == InitKeys /\ [][NextKeys]_vars

RootKeySet(r) == {heap[r].keys[i] : i \in 1..Len(heap[r].keys)}

\* two non-empty records whose root key sets differ
KeySetsDiffer(a, b) ==
    /\ NonEmptyRecord(a)
    /\ NonEmptyRecord(b)
    /\ RootKeySet(a) # RootKeySet(b)

\* C35: two non-empty records whose root key sets differ never hold the
\* same signature in the signature cache, and a disambiguating-mode
\* generateStructureId call on one leaves the counter of the other's
\* signature, hence the depth-0 segment the other gets next, as it is.
C35_KeySetsApart ==
    [][/\ \A a, b \in DOMAIN OBJECT_SIGNATURE_CACHE' :
              KeySetsDiffer(a, b) =>
                  OBJECT_SIGNATURE_CACHE'[a] # OBJECT_SIGNATURE_CACHE'[b]
       /\ (/\ last'.op = "generateStructureId"
           /\ last'.dis
           /\ ~last'.thrown)
              => \A b \in Refs :
                     KeySetsDiffer(last'.arg.r, b) =>
                         CountOf(STRUCTURE_HASH_COUNTER',
                                 FreshSignature(heap, Ref(b)))
                             = CountOf(STRUCTURE_HASH_COUNTER,
                                       FreshSignature(heap, Ref(b)))
      ]_vars

\* a disambiguating-mode call on {a: 0} has raised the one counter it
\* shares with {b: 0}: the two hold the same signature
C35_Witness ==
    /\ last.op = "generateStructureId"
    /\ last.dis
    /\ last.arg = Ref(1)
    /\ RootKeySet(1) = {KA}
    /\ RootKeySet(2) = {KB}
    /\ DOMAIN OBJECT_SIGNATURE_CACHE = {1, 2}
    /\ OBJECT_SIGNATURE_CACHE[1] = OBJECT_SIGNATURE_CACHE[2]
    /\ CountOf(STRUCTURE_HASH_COUNTER, OBJECT_SIGNATURE_CACHE[2]) = Whole(1)

\* the positions of the identifiers issued in runs
Issued ==
    {p \in (DOMAIN runs) \X (1..MaxCalls + 1) : p[2] <= Len(runs[p[1]])}

\* C36: with every call one atomic step, the disambiguating-mode
\* generateStructureId calls made on non-empty records since the counters
\* were last reset have each read another value of their signature's
\* counter (the i-th call of a signature the value i - 1), and the
\* identifiers they returned are pairwise distinct.
C36_DistinctIdentifiers ==
    /\ \A p \in Issued :
           Split(runs[p[1]][p[2]], "-")[1] = <<"L", "0", ":">> \o Dec(p[2] - 1)
    /\ \A p, q \in Issued :
           p # q => runs[p[1]][p[2]] # runs[q[1]][q[2]]

\* three disambiguating-mode calls, made on both records {a: 0} and
\* {b: 0}, have drawn on the one counter the two share
C36_Witness ==
    /\ DOMAIN OBJECT_SIGNATURE_CACHE = {1, 2}
    /\ OBJECT_SIGNATURE_CACHE[1] = OBJECT_SIGNATURE_CACHE[2]
    /\ Len(RunIds(OBJECT_SIGNATURE_CACHE[1])) = 3
    /\ OBJECT_ID_CACHE = <<>>

(***************************************************************************)
(* SpecMutate: the caller changes the shape of an object between calls.    *)
(* The caches are keyed by the object, so its entries stay with it.        *)
(***************************************************************************)
\* obj.b = 0 on a record without key b, arr.push(0) on a sequence
GainKey(r) ==
    /\ Len(heap[r].vals) < 2
    /\ heap[r].kind = "object" => \A i \in 1..Len(heap[r].keys) :
                                      heap[r].keys[i] # KB
    /\ heap' = [heap EXCEPT
                  ![r] = IF @.kind = "object"
                         THEN Obj(Append(@.keys, KB), Append(@.vals, N0))
                         ELSE Arr(Append(@.vals, N0))]
    /\ last' = [NoCall EXCEPT !.op = "gainKey", !.arg = Ref(r)]
    /\ UNCHANGED <<GLOBAL_KEY_MAP, STRUCTURE_HASH_COUNTER, OBJECT_ID_CACHE,
                   OBJECT_SIGNATURE_CACHE, STRUCTURE_INFO_CACHE, globalConfig,
                   stable, runs>>

\* delete of the record's last key, arr.pop() on a sequence
LoseKey(r) ==
    /\ Len(heap[r].vals) > 0
    /\ heap' = [heap EXCEPT
                  ![r] = IF @.kind = "object"
                         THEN Obj(SubSeq(@.keys, 1, Len(@.keys) - 1),
                                  SubSeq(@.vals, 1, Len(@.vals) - 1))
                         ELSE Arr(SubSeq(@.vals, 1, Len(@.vals) - 1))]
    /\ last' = [NoCall EXCEPT !.op = "loseKey", !.arg = Ref(r)]
    /\ UNCHANGED <<GLOBAL_KEY_MAP, STRUCTURE_HASH_COUNTER, OBJECT_ID_CACHE,
                   OBJECT_SIGNATURE_CACHE, STRUCTURE_INFO_CACHE, globalConfig,
                   stable, runs>>

MutateHeaps == {<<Obj(<<KA>>, <<N0>>)>>, <<Arr(<<N0>>)>>}

InitMutate == heap \in MutateHeaps /\ InitState

NextMutate ==
    \/ \E config \in ModeConfigs :
           Tick /\ CallGenerateStructureId(Ref(1), config)
    \/ Tick /\ CallGetStructureSignature(Ref(1))
    \/ Tick /\ CallGetStructureInfo(Ref(1), "off")
    \/ Tick /\ GainKey(1)
    \/ Tick /\ LoseKey(1)
    \/ Tick /\ CallResetState

SpecMutate == InitMutate /\ [][NextMutate]_vars

\* C37: a stable-mode generateStructureId call on an object returns the
\* identifier a freshly created value of the object's current shape gets,
\* also after the object has gained or lost a key or element since the
\* previous call; getStructureSignature returns that identifier's
\* signature and stable-mode getStructureInfo that identifier as id.
C37_CurrentShape ==
    /\ StableIdCall => last.ret = FreshId(heap, last.arg)
    /\ (last.op = "getStructureSignature" /\ IsRef(last.arg) /\ ~last.thrown)
           => last.ret = FreshSignature(heap, last.arg)
    /\ (/\ last.op = "getStructureInfo"
        /\ IsRef(last.arg)
        /\ ~last.dis
        /\ ~last.thrown)
           => last.ret = FreshId(heap, last.arg)

\* the record {a: 0} has gained key b after its identifier was cached, and
\* a stable-mode call has returned the cached identifier, that of {a: 0}
C37_Witness ==
    /\ StableIdCall
    /\ heap[1].kind = "object"
    /\ heap[1].keys = <<KA, KB>>
    /\ last.calls = 0
    /\ last.ret = FreshId(<<Obj(<<KA>>, <<N0>>)>>, Ref(1))
    /\ last.ret # FreshId(heap, Ref(1))

====
